---- MODULE Spec2Model ----
(***************************************************************************)
(* Model of the Tableau migration tool (tableau_migration.py) and of the   *)
(* workbook export pipeline (automate_workbook_export.py).                 *)
(*                                                                         *)
(* One behaviour is one command-line invocation of one of the two scripts. *)
(* Every call to an external service (the Tableau REST client, the         *)
(* artifact server, the source-control host) and every file operation that *)
(* the code guards with an exception handler is one step whose outcome is  *)
(* chosen by the environment.                                              *)
(***************************************************************************)
EXTENDS Naturals, Sequences, FiniteSets

\* ------------------------------------------------------------------ bounds

\* Most migrate_workbook calls made during one invocation (migrate-project
\* and migrate-site call it once per workbook).
MaxCalls == 2

\* Most projects of the source site that migrate_site lists.
MaxProjects == 3

\* Most projects of the source site in the runs of migrate_site that go on
\* to migrate the workbooks of the projects.
MaxMigrated == 2

\* Most workbooks the enumeration of a site returns to list_workbooks.
MaxWorkbooks == 3

\* ------------------------------------------------------ the download directory

\* A file name of the download directory: a stem and an extension.
\* <<"workbook", id>> is f"workbook_{workbook_id}", <<"workbook", 0>> is the
\* literal "workbook" and <<"srv", 0>> a name the server chose.
FileName(stem, ext) == [stem |-> stem, ext |-> ext]

NoFile == FileName(<<"", 0>>, "")

\* re.sub(r'[^\w\-_.]', '_', f"workbook_{workbook_id}")
SafeFilename(workbook_id) == <<"workbook", workbook_id>>

\* The extensions in the other order.
FileExtensionsSwapped == <<".twb", ".twbx">>

\* file_extensions = ['.twbx', '.twb']
FileExtensions == <<".twbx", ".twb">>

\* os.path.join(self.temp_dir, f"{safe_filename}{ext}")
ExtPath(workbook_id, ext) == FileName(SafeFilename(workbook_id), ext)

\* os.path.join(self.temp_dir, "workbook.twbx")
DefaultAltPath == FileName(<<"workbook", 0>>, ".twbx")

\* The names under which a download into the directory stores the file: the
\* server picks the name, with a workbook extension or without one.
ServerFile == FileName(<<"srv", 0>>, ".twbx")

ServerOther == FileName(<<"srv", 0>>, ".bin")

\* The directory is the sequence of its files, oldest change time first.
\* A file: its name, its size (0 or 1 for "positive"), the workbook whose
\* content it holds (0: none of this invocation) and the migrate_workbook
\* call that wrote it (0: it was there before the invocation).
File(name, size, wb, call) == [name |-> name, size |-> size, wb |-> wb, call |-> call]

Names(d) == {d[i].name : i \in 1..Len(d)}

\* os.path.exists(path)
Exists(d, name) == name \in Names(d)

Entry(d, name) == d[CHOOSE i \in 1..Len(d) : d[i].name = name]

\* os.path.getsize(path)
GetSize(d, name) == Entry(d, name).size

\* os.remove(path)
Remove(d, name) == SelectSeq(d, LAMBDA f : f.name # name)

\* A download writes (or rewrites) the file: it becomes the newest.
WriteFile(d, f) == Append(Remove(d, f.name), f)

\* f.endswith('.twb') or f.endswith('.twbx')
IsWorkbookFile(name) == name.ext = ".twb" \/ name.ext = ".twbx"

\* possible_files = [f for f in os.listdir(self.temp_dir) if ...]
PossibleFiles(d) == SelectSeq(d, LAMBDA f : IsWorkbookFile(f.name))

\* max(possible_files, key=os.path.getctime)
NewestFile(d) == PossibleFiles(d)[Len(PossibleFiles(d))].name

\* ------------------------------------------------------------------- state

VARIABLES
    action,                 \* the command-line action of the invocation
    userDir,                \* args.download_dir was given
    pc,                     \* position of the (single-threaded) program
    exc,                    \* the exception propagating, "none" if none
    dirExists,              \* the download directory exists
    dir,                    \* its files, oldest change first
    should_delete_temp_dir, \* TableauMigrator.should_delete_temp_dir
    source_server,          \* TableauMigrator.source_server
    target_server,          \* TableauMigrator.target_server
    callNo,                 \* number of download routines started so far
    workbook_id,            \* the workbook of the current call
    wfBound,                \* the local workbook_file: "unbound", "none", "path"
    workbook_file,          \* its value when wfBound = "path"
    downloaded,             \* the local downloaded
    extIdx,                 \* position of the loop over file_extensions
    error_messages,         \* the local error_messages
    dlLog,                  \* download calls of the current call, in order
    pubLog,                 \* publish calls of the current call, in order
    mwLog,                  \* what else the current call did or logged
    local_workbook,         \* export pipeline: the path download returned
    mainLog,                \* what the invocation did or logged outside a call
    credentials,            \* the authentication settings given for each server
    signIns,                \* the sign-ins attempted, in order
    calls,                  \* the Tableau server calls the last step made
    workbook_name,          \* export: args.workbook_name
    nexus_url,              \* export: NEXUS_URL
    zip_path,               \* export: the local zip_path of main
    archive,                \* export: the entries of the archive at zip_path
    response,               \* export: the response to the PUT
    excMsg,                 \* export: the message of the exception raised
    sb,                     \* export: the base branch get_branch returned
    new_branch_name,        \* export: the local new_branch_name
    remote,                 \* export: what exists on the artifact server and
                            \* on the source-control host
    steps,                  \* export: the steps of the pipeline that ran
    source_projects,        \* migrate_site: the projects of the source site,
                            \* in the order of their listing
    target_projects,        \* the projects of the target site
    project_map,            \* migrate_site: the local project_map
    remaining_projects,     \* migrate_site: the local remaining_projects
    projects_handled,       \* migrate_site: the local projects_handled
    projIdx,                \* migrate_site: position of the running for loop
    ensured,                \* migrate_site: the mappings made, in order
    siteLog,                \* migrate_site: what it logged
    logger,                 \* __init__: the argument logger, "None" or "given"
    self_logger,            \* TableauMigrator.logger
    verify_ssl,             \* __init__: the argument verify_ssl
    all_workbooks,          \* list_workbooks: the workbooks of the site, in
                            \* the order the server enumerates them
    project_id,             \* list_workbooks: the argument project_id
    list_result,            \* list_workbooks: what the calls returned, in order
    workbooks,              \* migrate_project: the local workbooks
    wbIdx,                  \* migrate_project: position of its for loop
    migIdx,                 \* migrate_site: position of the loop over
                            \* project_map.items()
    migrated,               \* the migrate_project calls made, in order
    ensure_args,            \* ensure_project_exists: its arguments
    ensure_log,             \* ensure_project_exists: what the calls returned
    source_project          \* export: args.source_project

vars == <<action, userDir, pc, exc, dirExists, dir, should_delete_temp_dir,
          source_server, target_server, callNo, workbook_id, wfBound,
          workbook_file, downloaded, extIdx, error_messages, dlLog, pubLog,
          mwLog, local_workbook, mainLog, credentials, signIns, calls,
          workbook_name, nexus_url, zip_path, archive, response, excMsg, sb,
          new_branch_name, remote, steps, source_projects, target_projects,
          project_map, remaining_projects, projects_handled, projIdx, ensured,
          siteLog, logger, self_logger, verify_ssl, all_workbooks, project_id,
          list_result, workbooks, wbIdx, migIdx, migrated, ensure_args, ensure_log,
          source_project>>

args == <<action, userDir, mainLog>>
conn == <<source_server, target_server>>
mwLocals == <<wfBound, workbook_file, downloaded, extIdx, error_messages>>
mwLogs == <<dlLog, pubLog, mwLog>>
credVars == <<credentials, signIns>>
exportVars == <<workbook_name, nexus_url, zip_path, archive, response, excMsg,
                sb, new_branch_name, remote, steps>>
siteVars == <<source_projects, target_projects, project_map,
              remaining_projects, projects_handled, projIdx, ensured, siteLog>>
ctorVars == <<logger, self_logger, verify_ssl>>
listVars == <<all_workbooks, project_id, list_result>>
projectVars == <<workbooks, wbIdx, migIdx, migrated>>
ensureVars == <<ensure_args, ensure_log>>
moreVars == <<ctorVars, listVars, projectVars, ensureVars, source_project>>

ListActions == {"list_sites", "list_projects", "list_workbooks"}
MigrateActions == {"migrate_workbook", "migrate_project", "migrate_site"}
Actions == ListActions \cup MigrateActions \cup {"export"}

\* ------------------------------------------------------------- credentials

\* The authentication settings of one server, each given (truthy) or not.
Credential == [token_name : BOOLEAN, token_value : BOOLEAN, username : BOOLEAN]

NoCredential ==
    [token_name |-> FALSE, token_value |-> FALSE, username |-> FALSE]

TokenAndUsername ==
    [token_name |-> TRUE, token_value |-> TRUE, username |-> TRUE]

TokenNameOnly ==
    [token_name |-> TRUE, token_value |-> FALSE, username |-> FALSE]

\* main: if not (source_token_name or source_username): parser.error(...)
Validated(c) == c.token_name \/ c.username

\* The settings an invocation can reach the connects with: main validates the
\* source settings and, for a migration, the target settings; the export
\* script validates none and gives no target settings.
GivenCredentials(a) ==
    IF a = "export"
    THEN [source : Credential, target : {NoCredential}]
    ELSE IF a \in ListActions
    THEN [source : {c \in Credential : Validated(c)}, target : {NoCredential}]
    ELSE [source : {c \in Credential : Validated(c)},
          target : {c \in Credential : Validated(c)}]

\* The settings the invocations of Spec are run with.
SampleCredentials == {NoCredential, TokenAndUsername, TokenNameOnly}

\* ------------------------------------------------------------------ texts

\* A text is a sequence of tokens; ".twbx", ".twb" and ".zip" are one token
\* each, as are "/" and "." and " " and "_".
Suffixes == {".twbx", ".twb", ".zip", "."}

\* The workbook names of the export: plain, with a space, with a dot, with
\* a path separator.
WorkbookNames ==
    { <<"a">>, <<"a", " ", "b">>, <<"a", ".", "b">>, <<"a", "/", "b">> }

\* NEXUS_URL, without and with a trailing slash.
NexusUrls == { <<"nexus">>, <<"nexus", "/">> }

\* download_dir
DownloadDir == <<"dir">>

NoResponse == [status |-> 0, text |-> <<>>]

NoBranch == [name |-> <<>>, sha |-> ""]

EmptyMap == [k \in {} |-> <<>>]

\* project_id=None
NoProjectId == [type |-> "None", text |-> <<>>]

\* No call of ensure_project_exists was made.
NoEnsureArgs == [project_name |-> "", parent_id |-> <<"none">>]

\* What a user-supplied download directory may hold before the invocation:
\* nothing, or a workbook file that an earlier run left for a workbook id.
StaleDirs == { <<>>, <<File(ExtPath(1, ".twbx"), 1, 0, 0)>> }

NoParent == <<>>

Project(id, name, parent_id) ==
    [id |-> id, name |-> name, parent_id |-> parent_id]

\* len(source_project_id_or_name) > 20
IdThreshold == 20

\* A text of n characters c.
Chars(c, n) == [i \in 1..n |-> c]

\* The ids of the projects of a site: 36 characters.
Uuid(k) == <<k>> \o Chars("-", 35)

\* Names of projects: of 3 characters, and of 21 characters.
ShortName == <<"F", "i", "n">>
ShortNameLower == <<"f", "i", "n">>
LongName == <<"F">> \o Chars("x", IdThreshold)
OtherLongName == <<"z">> \o Chars("x", IdThreshold)

\* The site and the --source-project of the exports of Spec.
SampleProject ==
    /\ source_project = (IF action = "export" THEN ShortName ELSE <<>>)
    /\ source_projects =
           (IF action = "export"
            THEN <<Project(Uuid("1"), ShortNameLower, NoParent),
                   Project(Uuid("2"), LongName, NoParent)>>
            ELSE <<>>)

\* The state after the command line was parsed, but for the credentials.
InitBase ==
    /\ action \in Actions
    /\ userDir \in BOOLEAN
    /\ pc = "start"
    /\ exc = "none"
    /\ dirExists \in (IF userDir THEN BOOLEAN ELSE {FALSE})
    /\ dir \in (IF dirExists THEN StaleDirs ELSE {<<>>})
    /\ should_delete_temp_dir = FALSE
    /\ source_server = "None"
    /\ target_server = "None"
    /\ callNo = 0
    /\ workbook_id = 0
    /\ wfBound = "unbound"
    /\ workbook_file = NoFile
    /\ downloaded = FALSE
    /\ extIdx = 1
    /\ error_messages = <<>>
    /\ dlLog = <<>>
    /\ pubLog = <<>>
    /\ mwLog = {}
    /\ local_workbook = NoFile
    /\ mainLog = {}
    /\ signIns = <<>>
    /\ calls = {}
    /\ workbook_name \in (IF action = "export" THEN WorkbookNames ELSE {<<>>})
    /\ nexus_url \in (IF action = "export" THEN NexusUrls ELSE {<<>>})
    /\ zip_path = <<>>
    /\ archive = <<>>
    /\ response = NoResponse
    /\ excMsg = <<>>
    /\ sb = NoBranch
    /\ new_branch_name = <<>>
    /\ remote = {}
    /\ steps = <<>>
    /\ target_projects = {}
    /\ project_map = EmptyMap
    /\ remaining_projects = <<>>
    /\ projects_handled = <<>>
    /\ projIdx = 1
    /\ ensured = <<>>
    /\ siteLog = {}
    /\ self_logger = "unset"
    /\ list_result = <<>>
    /\ workbooks = <<>>
    /\ wbIdx = 1
    /\ migIdx = 1
    /\ migrated = <<>>
    /\ ensure_args = NoEnsureArgs
    /\ ensure_log = <<>>

\* Both scripts construct the migrator with a logger of their own; the
\* invocations of Spec are run with the verification of the certificates.
MainLogger ==
    /\ logger = "given"
    /\ verify_ssl = TRUE

\* The invocations of Spec list a site without workbooks, with no project id.
NoListing ==
    /\ all_workbooks = <<>>
    /\ project_id = NoProjectId

Init ==
    /\ InitBase
    /\ SampleProject
    /\ MainLogger
    /\ NoListing
    /\ credentials \in {c \in GivenCredentials(action) :
                            /\ c.source \in SampleCredentials
                            /\ c.target \in SampleCredentials}

\* ------------------------------------------------- outcomes of a download call

\* A download to a file path: it raises ("raise"), raises after it wrote part
\* of the file ("partial"), returns without a file at the path ("nofile"),
\* returns and leaves a zero-byte file ("empty") or a non-empty one ("ok").
DlOutcomes == {"raise", "partial", "nofile", "empty", "ok"}

DlRaised(o) == o \in {"raise", "partial"}

DlEffect(d, path, o, wb, call) ==
    CASE o \in {"partial", "ok"} -> WriteFile(d, File(path, 1, wb, call))
      [] o = "empty" -> WriteFile(d, File(path, 0, wb, call))
      [] OTHER -> d

\* A download into the directory: it raises (TypeError, or another error), or
\* it returns the path of the file it wrote ("written", a file that may be
\* empty), a path at which nothing exists ("missing"), or None ("none") with
\* or without having written a file under a name of its own.
AltOutcomes ==
    {[exc |-> e, wrote |-> NoFile, size |-> 0, ret |-> "none"] :
        e \in {"TypeError", "Error"}}
    \cup {[exc |-> "none", wrote |-> ServerFile, size |-> s, ret |-> "written"] :
        s \in 0..1}
    \cup {[exc |-> "none", wrote |-> n, size |-> 1, ret |-> "none"] :
        n \in {ServerFile, ServerOther}}
    \cup {[exc |-> "none", wrote |-> NoFile, size |-> 0, ret |-> r] :
        r \in {"missing", "none"}}

AltEffect(d, o, wb, call) ==
    IF o.wrote = NoFile THEN d ELSE WriteFile(d, File(o.wrote, o.size, wb, call))

\* ------------------------------------------------------ calls to the servers

\* A call made through one of the two connections of the migrator.
Call(server, op) == [server |-> server, op |-> op]

\* The calls that create or change content on the server they are made to.
WriteOps == {"create_project", "publish"}

\* The calls that read, and the ones of the session.
ReadOps == {"sign_in", "sign_out", "switch_site", "list", "get_by_id",
            "download"}

\* A publish made through the connection to the source.
PublishedOnSource == "source"

\* self.target_server.workbooks.publish(...)
PublishedOn == "target"

\* self.target_server.projects.create(new_project)
ProjectsCreatedOn == "target"

\* The calls of ensure_project_exists: the projects of the name are listed;
\* the project is created when none of them has the parent.
EnsureCalls(creates) ==
    {Call("target", "list")} \cup
    (IF creates THEN {Call(ProjectsCreatedOn, "create_project")} ELSE {})

\* ------------------------------------------------ TableauMigrator.migrate_workbook

\* The caller's side of a call: a fresh frame for migrate_workbook. Both
\* servers are connected by then, so the connects of its first lines do nothing.
CallMigrateWorkbook ==
    /\ callNo' = callNo + 1
    /\ workbook_id' = callNo + 1
    /\ wfBound' = "unbound"
    /\ workbook_file' = NoFile
    /\ downloaded' = FALSE
    /\ extIdx' = 1
    /\ error_messages' = <<>>
    /\ dlLog' = <<>>
    /\ pubLog' = <<>>
    /\ mwLog' = {}
    /\ pc' = "mw_verify"

\* workbooks.get_by_id; when it fails, the siblings are listed (list_workbooks
\* swallows its own failure) and ValueError is raised. workbook_file is not
\* assigned before the lookup has succeeded.
MW_Verify ==
    /\ pc = "mw_verify"
    /\ \E found \in BOOLEAN, listed \in BOOLEAN :
        /\ IF found
           THEN /\ wfBound' = "none"
                /\ pc' = "mw_ext"
                /\ UNCHANGED <<exc, mwLog>>
           ELSE /\ mwLog' = mwLog \cup
                    {"lookup_failed",
                     IF listed THEN "siblings_listed" ELSE "siblings_list_failed"}
                /\ exc' = "ValueError"
                /\ pc' = "mw_finally"
                /\ UNCHANGED wfBound
        /\ calls' = {Call("source", "get_by_id")} \cup
                    (IF found THEN {} ELSE {Call("source", "list")})
    /\ UNCHANGED <<args, conn, dirExists, dir, should_delete_temp_dir, callNo,
                   workbook_id, workbook_file, downloaded, extIdx,
                   error_messages, dlLog, pubLog, local_workbook>>
    /\ UNCHANGED moreVars
    /\ UNCHANGED <<credVars, exportVars, siteVars>>

\* A check of the file that does not look at its size.
AcceptsAnyFile(d, path) == Exists(d, path)

\* if os.path.exists(workbook_file): ... if file_size > 0: downloaded = True
AcceptsFile(d, path) == Exists(d, path) /\ GetSize(d, path) > 0

\* What the log keeps of a download call to a file path.
DlRecord(ext, o, d, path) ==
    [kind |-> "file", ext |-> ext, raised |-> DlRaised(o),
     exists |-> Exists(d, path),
     size |-> IF Exists(d, path) THEN GetSize(d, path) ELSE 0]

\* One pass of the loop over file_extensions: the download call, the check of
\* the file and the removal of a zero-byte file.
MW_DownloadExt ==
    /\ pc = "mw_ext"
    /\ \E o \in DlOutcomes :
        LET ext == FileExtensions[extIdx]
            path == ExtPath(workbook_id, ext)
            d1 == DlEffect(dir, path, o, workbook_id, callNo)
            empty == ~DlRaised(o) /\ Exists(d1, path) /\ ~AcceptsFile(d1, path)
            got == ~DlRaised(o) /\ AcceptsFile(d1, path)
            last == extIdx = Len(FileExtensions)
        IN  /\ wfBound' = "path"
            /\ workbook_file' = path
            /\ dlLog' = Append(dlLog, DlRecord(ext, o, d1, path))
            /\ downloaded' = got
            /\ dir' = IF empty THEN Remove(d1, path) ELSE d1
            /\ error_messages' =
                 IF got THEN error_messages
                 ELSE Append(error_messages,
                        CASE DlRaised(o) -> "download_error"
                          [] empty -> "file_empty"
                          [] OTHER -> "file_missing")
            /\ extIdx' = extIdx + 1
            /\ pc' = IF got THEN "mw_open"
                     ELSE IF last THEN "mw_alt" ELSE "mw_ext"
    /\ calls' = {Call("source", "download")}
    /\ UNCHANGED <<args, conn, exc, dirExists, should_delete_temp_dir, callNo,
                   workbook_id, pubLog, mwLog, local_workbook>>
    /\ UNCHANGED moreVars
    /\ UNCHANGED <<credVars, exportVars, siteVars>>

\* What the alternative approach makes of the value the download returned:
\* a path that exists is taken as it is; for None the newest workbook file of
\* the directory is taken; anything else is an error.
AltResult(d, o) ==
    IF o.ret = "written"
    THEN [downloaded |-> TRUE, file |-> o.wrote, error |-> "none"]
    ELSE IF o.ret = "none"
    THEN IF PossibleFiles(d) # <<>>
         THEN [downloaded |-> TRUE, file |-> NewestFile(d), error |-> "none"]
         ELSE [downloaded |-> FALSE, file |-> DefaultAltPath,
               error |-> "no_files"]
    ELSE [downloaded |-> FALSE, file |-> DefaultAltPath,
          error |-> "path_missing"]

\* What the log keeps of a download into the directory: the exception, the
\* value returned, and whether the directory then held a workbook file.
AltRecord(kind, o, d) ==
    [kind |-> kind, exc |-> o.exc, ret |-> o.ret,
     scan |-> PossibleFiles(d) # <<>>]

\* The rest of the alternative approach once a download into the directory
\* has ended with outcome o, and the raise of FileNotFoundError after it.
AltFinish(kind, o) ==
    LET d1 == AltEffect(dir, o, workbook_id, callNo)
        r == AltResult(d1, o)
        ok == o.exc = "none" /\ r.downloaded
    IN  /\ dir' = d1
        /\ dlLog' = Append(dlLog, AltRecord(kind, o, d1))
        /\ wfBound' = "path"
        /\ workbook_file' = IF o.exc = "none" THEN r.file ELSE DefaultAltPath
        /\ downloaded' = ok
        /\ error_messages' =
             IF ok THEN error_messages
             ELSE Append(error_messages,
                         IF o.exc # "none" THEN "alt_failed" ELSE r.error)
        /\ exc' = IF ok THEN exc ELSE "FileNotFoundError"
        /\ pc' = IF ok THEN "mw_open" ELSE "mw_finally"

\* A handler that catches every exception of the first call.
RetriesOnAnyError(o) == o.exc # "none"

\* except TypeError: the call is made again without include_extract.
RetriesWithoutParameter(o) == o.exc = "TypeError"

\* workbooks.download(workbook_id, filepath=self.temp_dir,
\* include_extract=...): a TypeError leads to the call without the parameter.
MW_DownloadAlt ==
    /\ pc = "mw_alt"
    /\ \E o \in AltOutcomes :
        IF RetriesWithoutParameter(o)
        THEN /\ dlLog' = Append(dlLog, AltRecord("dir", o, dir))
             /\ wfBound' = "path"
             /\ workbook_file' = DefaultAltPath
             /\ pc' = "mw_alt_retry"
             /\ UNCHANGED <<dir, downloaded, error_messages, exc>>
        ELSE AltFinish("dir", o)
    /\ calls' = {Call("source", "download")}
    /\ UNCHANGED <<args, conn, dirExists, should_delete_temp_dir, callNo,
                   workbook_id, extIdx, pubLog, mwLog, local_workbook>>
    /\ UNCHANGED moreVars
    /\ UNCHANGED <<credVars, exportVars, siteVars>>

\* workbooks.download(workbook_id, filepath=self.temp_dir)
MW_DownloadAltRetry ==
    /\ pc = "mw_alt_retry"
    /\ \E o \in AltOutcomes : AltFinish("dir_plain", o)
    /\ calls' = {Call("source", "download")}
    /\ UNCHANGED <<args, conn, dirExists, should_delete_temp_dir, callNo,
                   workbook_id, extIdx, pubLog, mwLog, local_workbook>>
    /\ UNCHANGED moreVars
    /\ UNCHANGED <<credVars, exportVars, siteVars>>

\* with open(workbook_file, 'rb') as file_check: file_check.read(1024)
\* A failure is caught by the handler of the publish.
MW_Open ==
    /\ pc = "mw_open"
    /\ \E readable \in BOOLEAN :
        /\ mwLog' = IF readable THEN mwLog ELSE mwLog \cup {"open_failed"}
        /\ pc' = IF readable THEN "mw_publish" ELSE "mw_publish_retry"
    /\ calls' = {}
    /\ UNCHANGED <<args, conn, exc, dirExists, dir, should_delete_temp_dir,
                   callNo, workbook_id, mwLocals, dlLog, pubLog,
                   local_workbook>>
    /\ UNCHANGED moreVars
    /\ UNCHANGED <<credVars, exportVars, siteVars>>

\* What the log keeps of a publish call: the mode, the outcome and the file.
PubRecord(mode, ok) ==
    [mode |-> mode, ok |-> ok, file |-> workbook_file,
     exists |-> Exists(dir, workbook_file),
     size |-> IF Exists(dir, workbook_file)
              THEN GetSize(dir, workbook_file) ELSE 0]

\* The publish mode of the second attempt.
RetryMode == "CreateNew"

\* target_server.workbooks.publish(new_workbook, workbook_file, Overwrite)
MW_Publish ==
    /\ pc = "mw_publish"
    /\ \E ok \in BOOLEAN :
        /\ pubLog' = Append(pubLog, PubRecord("Overwrite", ok))
        /\ pc' = IF ok THEN "mw_finally" ELSE "mw_publish_retry"
    /\ calls' = {Call(PublishedOn, "publish")}
    /\ UNCHANGED <<args, conn, exc, dirExists, dir, should_delete_temp_dir,
                   callNo, workbook_id, mwLocals, dlLog, mwLog,
                   local_workbook>>
    /\ UNCHANGED moreVars
    /\ UNCHANGED <<credVars, exportVars, siteVars>>

\* A handler of the second publish that does not raise again.
PublishRetrySwallows(ok, e) == e

\* except Exception as retry_error: ... raise
PublishRetryExc(ok, e) == IF ok THEN e ELSE "retry_error"

\* The handler: publish with CreateNew; its failure is raised again.
MW_PublishRetry ==
    /\ pc = "mw_publish_retry"
    /\ \E ok \in BOOLEAN :
        /\ pubLog' = Append(pubLog, PubRecord(RetryMode, ok))
        /\ exc' = PublishRetryExc(ok, exc)
        /\ pc' = "mw_finally"
    /\ calls' = {Call(PublishedOn, "publish")}
    /\ UNCHANGED <<args, conn, dirExists, dir, should_delete_temp_dir,
                   callNo, workbook_id, mwLocals, dlLog, mwLog,
                   local_workbook>>
    /\ UNCHANGED moreVars
    /\ UNCHANGED <<credVars, exportVars, siteVars>>

\* if workbook_file and os.path.exists(workbook_file) and
\*    self.should_delete_temp_dir
RemovesTempFile(bound, d, path, should_delete) ==
    bound = "path" /\ Exists(d, path) /\ should_delete

\* The finally block. Reading workbook_file while it is unbound raises
\* UnboundLocalError, which replaces the exception on its way out; a failure
\* of os.remove is logged as a warning.
MW_Finally ==
    /\ pc = "mw_finally"
    /\ \E removed \in BOOLEAN :
        LET removes == wfBound # "unbound" /\
                RemovesTempFile(wfBound, dir, workbook_file,
                                should_delete_temp_dir)
        IN  /\ (removed \/ removes)
            /\ exc' = IF wfBound = "unbound" THEN "UnboundLocalError" ELSE exc
            /\ dir' = IF removes /\ removed
                      THEN Remove(dir, workbook_file) ELSE dir
            /\ mwLog' = IF removes /\ ~removed
                        THEN mwLog \cup {"remove_failed"} ELSE mwLog
    /\ pc' = "mw_return"
    /\ calls' = {}
    /\ UNCHANGED <<args, conn, dirExists, should_delete_temp_dir, callNo,
                   workbook_id, mwLocals, dlLog, pubLog, local_workbook>>
    /\ UNCHANGED moreVars
    /\ UNCHANGED <<credVars, exportVars, siteVars>>

\* ------------------------------------------------------ tableau_migration.main

\* A migrator that takes every download directory for its own.
AlwaysDeleteTempDir(download_dir_given) == TRUE

\* TableauMigrator.__init__, the download directory: a given directory is
\* created if it does not exist and is kept; else tempfile.mkdtemp() makes one
\* that is to be deleted.
ShouldDeleteTempDir(download_dir_given) == ~download_dir_given

\* if not verify_ssl: ... logger.warning("SSL certificate verification is
\* disabled. ..."): the warning is sent to the argument logger, before
\* self.logger is set; with logger=None the attribute lookup raises.
SslWarning(verify, lg) ==
    IF verify THEN "none"
    ELSE IF lg = "None" THEN "AttributeError" ELSE "warned"

\* if logger: self.logger = logger
\* else: self.logger = logging.getLogger('tableau_migrator') ...
SelfLogger(lg) == IF lg = "None" THEN "default" ELSE "given"

\* TableauMigrator.__init__: the warning, the logger and the download
\* directory; an exception leaves the constructor, and main with it, before
\* the try of main is entered.
M_New ==
    /\ pc = "start"
    /\ action # "export"
    /\ LET w == SslWarning(verify_ssl, logger)
       IN  IF w = "AttributeError"
           THEN /\ exc' = w
                /\ pc' = "exit"
                /\ UNCHANGED <<mainLog, self_logger, dirExists,
                               should_delete_temp_dir>>
           ELSE /\ mainLog' = IF w = "warned"
                              THEN mainLog \cup {"ssl_warning"} ELSE mainLog
                /\ self_logger' = SelfLogger(logger)
                /\ dirExists' = TRUE
                /\ should_delete_temp_dir' = ShouldDeleteTempDir(userDir)
                /\ pc' = "m_connect_source"
                /\ UNCHANGED exc
    /\ calls' = {}
    /\ UNCHANGED <<action, userDir, conn, dir, callNo, workbook_id, mwLocals,
                   mwLogs, local_workbook>>
    /\ UNCHANGED <<logger, verify_ssl, listVars, projectVars, ensureVars,
                   source_project>>
    /\ UNCHANGED <<credVars, exportVars, siteVars>>

\* An authentication that takes the token name for a complete token.
AuthKindByTokenName(c) ==
    IF c.token_name THEN "token"
    ELSE IF c.username THEN "password" ELSE "none"

\* if self.source_token_name and self.source_token_value: token
\* elif self.source_username: username and password; else: raise ValueError
AuthKind(c) ==
    IF c.token_name /\ c.token_value THEN "token"
    ELSE IF c.username THEN "password" ELSE "none"

\* How a connect ends: ValueError before any server object exists, a failed
\* sign-in after the server object was stored, or a signed-in server.
ConnectOutcomes == {"no_credentials", "sign_in_failed", "ok"}

\* The ends a connect can take with the settings c.
ConnectOutcomesOf(c) ==
    IF AuthKind(c) = "none" THEN {"no_credentials"}
    ELSE ConnectOutcomes \ {"no_credentials"}

\* server.auth.sign_in(auth): the sign-ins attempted so far and the call.
SignIn(server, o) ==
    IF o = "no_credentials" THEN signIns
    ELSE Append(signIns,
                [server |-> server, auth |-> AuthKind(credentials[server])])

SignInCalls(server, o) ==
    IF o = "no_credentials" THEN {} ELSE {Call(server, "sign_in")}

ServerAfter(o) ==
    CASE o = "no_credentials" -> "None"
      [] o = "sign_in_failed" -> "created"
      [] OTHER -> "signed_in"

ConnectExc(o) ==
    CASE o = "no_credentials" -> "ValueError"
      [] o = "sign_in_failed" -> "SignInError"
      [] OTHER -> "none"

\* connect_to_source, called by main or by the first operation that needs it.
M_ConnectSource ==
    /\ pc = "m_connect_source"
    /\ \E o \in ConnectOutcomesOf(credentials.source) :
        /\ source_server' = ServerAfter(o)
        /\ exc' = ConnectExc(o)
        /\ signIns' = SignIn("source", o)
        /\ calls' = SignInCalls("source", o)
        /\ pc' = IF o # "ok" THEN "m_finally"
                 ELSE IF action \in ListActions THEN "m_list"
                 ELSE "m_connect_target"
    /\ UNCHANGED <<args, target_server, dirExists, dir,
                   should_delete_temp_dir, callNo, workbook_id, mwLocals,
                   mwLogs, local_workbook>>
    /\ UNCHANGED moreVars
    /\ UNCHANGED <<credentials, exportVars, siteVars>>

\* connect_to_target
M_ConnectTarget ==
    /\ pc = "m_connect_target"
    /\ \E o \in ConnectOutcomesOf(credentials.target) :
        /\ target_server' = ServerAfter(o)
        /\ exc' = ConnectExc(o)
        /\ signIns' = SignIn("target", o)
        /\ calls' = SignInCalls("target", o)
        /\ pc' = IF o # "ok" THEN "m_finally"
                 ELSE IF action = "migrate_workbook" THEN "m_lookup"
                 ELSE "mp_start"
    /\ UNCHANGED <<args, source_server, dirExists, dir,
                   should_delete_temp_dir, callNo, workbook_id, mwLocals,
                   mwLogs, local_workbook>>
    /\ UNCHANGED moreVars
    /\ UNCHANGED <<credentials, exportVars, siteVars>>

\* The listing operations a listing action of main calls: --list-workbooks
\* calls list_workbooks_by_project_name when a project name is given.
ListingsOf(a) ==
    CASE a = "list_sites" -> {"list_source_sites"}
      [] a = "list_projects" -> {"list_projects"}
      [] OTHER -> {"list_workbooks", "list_workbooks_by_project_name"}

\* The listing operations that enclose the enumeration in
\* try: ... except Exception: self.logger.error(...); return []
CatchesEnumerationFailure(listing) ==
    listing \in {"list_workbooks", "list_workbooks_by_project_name"}

\* What a listing operation logs and returns when the enumeration failed.
FailedListing(listing) ==
    {"enumeration_failed"} \cup
    (IF CatchesEnumerationFailure(listing)
     THEN {"error_logged", "returned_empty"} ELSE {})

\* A value given or held as a project id: its type and the text that str()
\* makes of it, one token for each character.
IdValue(type, text) == [type |-> type, text |-> text]

\* str(v): the type is lost; str(None) is 'None'.
Str(v) == IF v.type = "None" THEN <<"N", "o", "n", "e">> ELSE v.text

\* The lower-case form of a character.
LowerChar(c) ==
    CASE c = "P" -> "p"
      [] c = "N" -> "n"
      [] c = "F" -> "f"
      [] OTHER -> c

\* s.lower()
Lower(t) == [i \in 1..Len(t) |-> LowerChar(t[i])]

\* if project_id: None and the empty string are not taken for a project id.
IsGiven(v) == v.type # "None" /\ v.text # <<>>

\* A comparison of the two ids as they are.
SameProjectExactly(a, b) == Str(a) = Str(b)

\* str(wb.project_id).lower() == str(project_id).lower()
SameProject(a, b) == Lower(Str(a)) = Lower(Str(b))

\* A workbook of the site.
Workbook(id, pid) == [id |-> id, project_id |-> pid]

\* filtered_workbooks = [wb for wb in all_workbooks if ...]
FilterByProject(wbs, pid) ==
    SelectSeq(wbs, LAMBDA wb : SameProject(wb.project_id, pid))

\* list_workbooks(server, project_id=pid): the enumeration, the filter, and
\* the handler that returns [] for a failure of the enumeration.
ListWorkbooks(wbs, pid, failed) ==
    IF failed THEN <<>>
    ELSE IF IsGiven(pid) THEN FilterByProject(wbs, pid)
    ELSE wbs

\* The project ids the workbooks of a site hold.
WorkbookProjectIds ==
    {IdValue("str", <<"P", "1">>), IdValue("str", <<"p", "1">>),
     IdValue("str", <<"p", "2">>), IdValue("str", <<"1">>), NoProjectId}

\* The project ids a caller gives: None, the empty string, ids in either
\* case, an id that is a number, and the text 'none'.
ProjectIdArgs ==
    {NoProjectId, IdValue("str", <<>>), IdValue("str", <<"P", "1">>),
     IdValue("str", <<"p", "1">>), IdValue("str", <<"p", "2">>),
     IdValue("int", <<"1">>), IdValue("str", <<"n", "o", "n", "e">>)}

\* What the enumeration of the workbooks of a site may return.
SiteWorkbooks ==
    UNION { { [i \in 1..n |-> Workbook(i, f[i])] :
                f \in [1..n -> WorkbookProjectIds] } : n \in 0..MaxWorkbooks }

\* What the log keeps of a call of list_workbooks.
ListRecord(failed, returned) == [failed |-> failed, returned |-> returned]

\* The listing actions of main: the enumeration succeeds or fails; only
\* list_workbooks and list_workbooks_by_project_name catch the failure.
M_List ==
    /\ pc = "m_list"
    /\ \E listing \in ListingsOf(action), failed \in BOOLEAN :
        /\ exc' = IF failed /\ ~CatchesEnumerationFailure(listing)
                  THEN "ListError" ELSE "none"
        /\ mainLog' = mainLog \cup {listing} \cup
                      (IF failed THEN FailedListing(listing) ELSE {})
        /\ list_result' =
             IF listing = "list_workbooks"
             THEN Append(list_result,
                         ListRecord(failed,
                             ListWorkbooks(all_workbooks, project_id, failed)))
             ELSE list_result
    /\ pc' = "m_finally"
    /\ calls' = {Call("source", "list")}
    /\ UNCHANGED <<action, userDir, conn, dirExists, dir,
                   should_delete_temp_dir, callNo, workbook_id, mwLocals,
                   mwLogs, local_workbook>>
    /\ UNCHANGED <<ctorVars, all_workbooks, project_id, projectVars,
                   ensureVars, source_project>>
    /\ UNCHANGED <<credVars, exportVars, siteVars>>

\* --migrate-workbook[-by-name]: the lookups of the source project, of the
\* workbook and of the target project end in sys.exit(1), in an error of the
\* server, or in the call of migrate_workbook.
M_Lookup ==
    /\ pc = "m_lookup"
    /\ \E o \in {"exit", "error", "ok"}, ensures \in BOOLEAN,
          creates \in BOOLEAN :
        /\ (ensures \/ ~creates)
        /\ (o = "ok" \/ ~ensures)
        /\ IF o = "ok"
           THEN CallMigrateWorkbook /\ UNCHANGED exc
           ELSE /\ exc' = IF o = "exit" THEN "SystemExit" ELSE "ServerError"
                /\ pc' = "m_finally"
                /\ UNCHANGED <<callNo, workbook_id, mwLocals, mwLogs>>
        /\ calls' = {Call("source", "list")} \cup
                    (IF ensures
                     THEN {Call("source", "get_by_id")} \cup EnsureCalls(creates)
                     ELSE {})
    /\ UNCHANGED <<args, conn, dirExists, dir, should_delete_temp_dir,
                   local_workbook>>
    /\ UNCHANGED moreVars
    /\ UNCHANGED <<credVars, exportVars, siteVars>>

\* migrate_project (and the projects of migrate_site) up to the loop over
\* the workbooks: an error of the server propagates.
MP_Start ==
    /\ pc = "mp_start"
    /\ \E ok \in BOOLEAN, ensures \in BOOLEAN, creates \in BOOLEAN :
        /\ (ensures \/ ~creates)
        /\ (ok \/ ~ensures)
        /\ exc' = IF ok THEN "none" ELSE "ServerError"
        /\ pc' = IF ok THEN "mp_loop" ELSE "m_finally"
        /\ calls' = {Call("source", "get_by_id")} \cup
                    (IF ensures THEN EnsureCalls(creates) ELSE {}) \cup
                    (IF ok THEN {Call("source", "list")} ELSE {})
    /\ UNCHANGED <<args, conn, dirExists, dir, should_delete_temp_dir, callNo,
                   workbook_id, mwLocals, mwLogs, local_workbook>>
    /\ UNCHANGED moreVars
    /\ UNCHANGED <<credVars, exportVars, siteVars>>

\* for workbook in workbooks: self.migrate_workbook(...)
MP_Loop ==
    /\ pc = "mp_loop"
    /\ \E more \in BOOLEAN :
        IF more /\ callNo < MaxCalls
        THEN CallMigrateWorkbook
        ELSE /\ pc' = "m_finally"
             /\ UNCHANGED <<callNo, workbook_id, mwLocals, mwLogs>>
    /\ calls' = {}
    /\ UNCHANGED <<args, conn, exc, dirExists, dir, should_delete_temp_dir,
                   local_workbook>>
    /\ UNCHANGED moreVars
    /\ UNCHANGED <<credVars, exportVars, siteVars>>

\* migrate_workbook returns to main or to the loop, or its exception
\* propagates to the finally of main; its frame is gone either way.
MW_Return ==
    /\ pc = "mw_return"
    /\ pc' = IF exc # "none" \/ action = "migrate_workbook"
             THEN "m_finally" ELSE "mp_loop"
    /\ wfBound' = "unbound"
    /\ workbook_file' = NoFile
    /\ downloaded' = FALSE
    /\ extIdx' = 1
    /\ error_messages' = <<>>
    /\ dlLog' = <<>>
    /\ pubLog' = <<>>
    /\ mwLog' = {}
    /\ calls' = {}
    /\ UNCHANGED <<args, conn, exc, dirExists, dir, should_delete_temp_dir,
                   callNo, workbook_id, local_workbook>>
    /\ UNCHANGED moreVars
    /\ UNCHANGED <<credVars, exportVars, siteVars>>

\* main's finally for the migrate actions calls cleanup; for the listing
\* actions it only signs out of the source server.
CallsCleanup(a) == a \notin ListActions

\* The sign-outs of main's finally: of the source server after a listing
\* action, of both servers in cleanup; a server that was never stored is not
\* signed out.
SignOutCalls(a, source, target) ==
    (IF source # "None" THEN {Call("source", "sign_out")} ELSE {}) \cup
    (IF CallsCleanup(a) /\ target # "None"
     THEN {Call("target", "sign_out")} ELSE {})

\* What cleanup logs for the sign-out of a server: the server is signed out
\* of when it is stored, and a failure is logged as a warning.
SignOutLog(server, stored, signed_out) ==
    IF stored # "None" /\ ~signed_out
    THEN {IF server = "source" THEN "source_sign_out_failed"
          ELSE "target_sign_out_failed"}
    ELSE {}

\* main's finally. For a migration it calls TableauMigrator.cleanup:
\* shutil.rmtree when the directory is the migrator's own, then the sign-out
\* of the source server and the one of the target server, each in a try of
\* its own whose handler logs the failure. For a listing action it signs out
\* of the source server, and a failure propagates.
M_Finally ==
    /\ pc = "m_finally"
    /\ \E removed \in BOOLEAN, signed_out \in BOOLEAN,
          target_signed_out \in BOOLEAN :
        LET cleanup == CallsCleanup(action)
            rmtree == cleanup /\ should_delete_temp_dir /\ dirExists
            sign_out == source_server # "None"
            target_sign_out == cleanup /\ target_server # "None"
        IN  /\ (removed \/ rmtree)
            /\ (signed_out \/ sign_out)
            /\ (target_signed_out \/ target_sign_out)
            /\ dirExists' = IF rmtree /\ removed THEN FALSE ELSE dirExists
            /\ dir' = IF rmtree /\ removed THEN <<>> ELSE dir
            /\ exc' = IF ~cleanup /\ sign_out /\ ~signed_out
                      THEN "SignOutError" ELSE exc
            /\ mainLog' =
                 mainLog \cup
                 (IF rmtree /\ ~removed THEN {"rmtree_failed"} ELSE {}) \cup
                 (IF cleanup
                  THEN SignOutLog("source", source_server, signed_out) \cup
                       SignOutLog("target", target_server, target_signed_out)
                  ELSE {})
    /\ pc' = "exit"
    /\ calls' = SignOutCalls(action, source_server, target_server)
    /\ UNCHANGED <<action, userDir, conn, should_delete_temp_dir, callNo,
                   workbook_id, mwLocals, mwLogs, local_workbook>>
    /\ UNCHANGED moreVars
    /\ UNCHANGED <<credVars, exportVars, siteVars>>

\* ------------------------------------------------ TableauMigrator.migrate_site

\* The ids of the projects of the source site and of the target site; the
\* parent_id of a top-level project is None.
SourceId(i) == <<"s", i>>

TargetId(k) == <<"t", k>>

ProjectNames == {"a", "b"}

\* No two projects of the same parent have the same name.
SiblingsDiffer(ps) ==
    \A i, j \in DOMAIN ps :
        (i # j /\ ps[i].parent_id = ps[j].parent_id) => ps[i].name # ps[j].name

\* What the listing of the source site may return: up to MaxProjects
\* projects in any order; the parent of a project is None, a project of the
\* listing (itself included) or a project that the listing does not hold.
SourceSites ==
    UNION {
        { [i \in 1..n |-> Project(SourceId(i), f[i].name, f[i].parent_id)] :
            f \in { g \in [1..n -> [name : ProjectNames,
                                   parent_id : {NoParent} \cup
                                       {SourceId(j) : j \in 1..(n + 1)}]] :
                    SiblingsDiffer(g) } } :
        n \in 1..MaxProjects }

\* The projects the target site may hold before the migration.
TargetSites ==
    { {},
      {Project(TargetId(1), "a", NoParent)},
      {Project(TargetId(1), "a", NoParent),
       Project(TargetId(2), "b", TargetId(1))} }

\* A comparison that takes any project of the name.
MatchesAnyParent(project, parent_id) == TRUE

\* (parent_id is None and project.parent_id is None) or
\* (parent_id is not None and project.parent_id == parent_id)
MatchesParent(project, parent_id) ==
    \/ (parent_id = NoParent /\ project.parent_id = NoParent)
    \/ (parent_id # NoParent /\ project.parent_id = parent_id)

\* The id the target server gives to a project it creates.
NewTargetId(targets) == TargetId(Cardinality(targets) + 1)

\* An ensure_project_exists that does not look for the project.
EnsureWithoutLookup(targets, project_name, parent_id) ==
    [project |-> Project(NewTargetId(targets), project_name, parent_id),
     created |-> TRUE]

\* ensure_project_exists(project_name, parent_id): the projects of the name
\* are listed and one with the parent is returned; else the project is
\* created with the parent.
EnsureProjectExists(targets, project_name, parent_id) ==
    LET found == {p \in targets :
                    p.name = project_name /\ MatchesParent(p, parent_id)}
    IN  IF found # {}
        THEN [project |-> CHOOSE p \in found : TRUE, created |-> FALSE]
        ELSE [project |-> Project(NewTargetId(targets), project_name, parent_id),
              created |-> TRUE]

\* The arguments a caller gives: a name, and as parent None, the id of a
\* project of the target site, or, as migrate_project does for a project it
\* is given no target for, the parent id of the source project.
EnsureArgs ==
    [project_name : ProjectNames,
     parent_id : {NoParent, TargetId(1), TargetId(2), SourceId(1)}]

\* The projects the target site may hold before the first call.
EnsureTargets ==
    TargetSites \cup
    { {Project(TargetId(1), "a", NoParent), Project(TargetId(2), "a", TargetId(1))},
      {Project(TargetId(1), "b", NoParent), Project(TargetId(2), "b", TargetId(1)),
       Project(TargetId(3), "a", TargetId(1))},
      {Project(TargetId(1), "b", SourceId(1))} }

\* What the log keeps of a call of ensure_project_exists: the projects of the
\* target site before it, whether it raised, the project it returned and
\* whether it created it; and of a change that another user of the target
\* site made.
EnsureRecord(before, raised, r) ==
    [kind |-> "call", before |-> before, raised |-> raised,
     project |-> r.project, created |-> r.created]

OtherChange == [kind |-> "other"]

\* A call of ensure_project_exists(project_name, parent_id) by a caller that
\* makes two of them with the same arguments; an error of the server in the
\* listing or in the creation is raised and nothing is created.
EN_Ensure ==
    /\ pc \in {"en_call", "en_again"}
    /\ \E ok \in BOOLEAN :
        LET r == EnsureProjectExists(target_projects, ensure_args.project_name,
                                     ensure_args.parent_id)
        IN  /\ target_projects' = IF ok THEN target_projects \cup {r.project}
                                  ELSE target_projects
            /\ ensure_log' = Append(ensure_log,
                                    EnsureRecord(target_projects, ~ok, r))
            /\ exc' = IF ok THEN exc ELSE "ServerError"
            /\ pc' = IF ~ok THEN "en_done"
                     ELSE IF pc = "en_call" THEN "en_again" ELSE "en_done"
            /\ calls' = IF ok THEN EnsureCalls(r.created)
                        ELSE {Call("target", "list")}
    /\ UNCHANGED <<action, userDir, conn, dirExists, dir,
                   should_delete_temp_dir, callNo, workbook_id, mwLocals,
                   mwLogs, local_workbook, mainLog, credVars, exportVars>>
    /\ UNCHANGED <<ctorVars, listVars, projectVars, ensure_args,
                   source_project>>
    /\ UNCHANGED <<source_projects, project_map, remaining_projects,
                   projects_handled, projIdx, ensured, siteLog>>

\* Between the two calls another user of the target site renames one of its
\* projects.
EN_Other ==
    /\ pc = "en_again"
    /\ ensure_log[Len(ensure_log)].kind = "call"
    /\ \E p \in target_projects :
        target_projects' =
            (target_projects \ {p}) \cup {[p EXCEPT !.name = "renamed"]}
    /\ ensure_log' = Append(ensure_log, OtherChange)
    /\ calls' = {}
    /\ UNCHANGED <<action, userDir, pc, exc, conn, dirExists, dir,
                   should_delete_temp_dir, callNo, workbook_id, mwLocals,
                   mwLogs, local_workbook, mainLog, credVars, exportVars>>
    /\ UNCHANGED <<ctorVars, listVars, projectVars, ensure_args,
                   source_project>>
    /\ UNCHANGED <<source_projects, project_map, remaining_projects,
                   projects_handled, projIdx, ensured, siteLog>>

\* project_map[key] = value
Put(m, key, value) ==
    [k \in DOMAIN m \cup {key} |-> IF k = key THEN value ELSE m[k]]

\* target_project = self.ensure_project_exists(project.name, parent_id)
\* project_map[project.id] = target_project.id
MapProject(project, parent_id) ==
    LET r == EnsureProjectExists(target_projects, project.name, parent_id)
    IN  /\ target_projects' = target_projects \cup {r.project}
        /\ project_map' = Put(project_map, project.id, r.project.id)
        /\ ensured' = Append(ensured, [source |-> project.id,
                                       target |-> r.project,
                                       created |-> r.created])
        /\ calls' = EnsureCalls(r.created)

\* ensure_project_exists raises: the error of the server leaves migrate_site.
MapProjectFails ==
    /\ exc' = "ServerError"
    /\ calls' = {Call("target", "list")}
    /\ UNCHANGED <<target_projects, project_map, ensured>>

\* A migrator with both servers connected and a download directory of its
\* own, before the operation that is called on it.
BothConnected ==
    /\ userDir = FALSE
    /\ exc = "none"
    /\ dirExists = TRUE
    /\ dir = <<>>
    /\ should_delete_temp_dir = ShouldDeleteTempDir(userDir)
    /\ source_server = "signed_in"
    /\ target_server = "signed_in"
    /\ callNo = 0
    /\ workbook_id = 0
    /\ wfBound = "unbound"
    /\ workbook_file = NoFile
    /\ downloaded = FALSE
    /\ extIdx = 1
    /\ error_messages = <<>>
    /\ dlLog = <<>>
    /\ pubLog = <<>>
    /\ mwLog = {}
    /\ local_workbook = NoFile
    /\ mainLog = {}
    /\ credentials = [source |-> TokenAndUsername, target |-> TokenAndUsername]
    /\ signIns = << [server |-> "source", auth |-> "token"],
                    [server |-> "target", auth |-> "token"] >>
    /\ calls = {}
    /\ workbook_name = <<>>
    /\ nexus_url = <<>>
    /\ zip_path = <<>>
    /\ archive = <<>>
    /\ response = NoResponse
    /\ excMsg = <<>>
    /\ sb = NoBranch
    /\ new_branch_name = <<>>
    /\ remote = {}
    /\ steps = <<>>
    /\ project_map = EmptyMap
    /\ remaining_projects = <<>>
    /\ projects_handled = <<>>
    /\ projIdx = 1
    /\ ensured = <<>>
    /\ siteLog = {}
    /\ MainLogger
    /\ self_logger = "given"
    /\ NoListing
    /\ list_result = <<>>
    /\ workbooks = <<>>
    /\ wbIdx = 1
    /\ migIdx = 1
    /\ migrated = <<>>
    /\ ensure_log = <<>>
    /\ source_project = <<>>

\* The state in which migrate_site lists the projects.
SiteInit ==
    /\ BothConnected
    /\ action = "migrate_site"
    /\ pc = "ms_list"
    /\ source_projects \in SourceSites
    /\ target_projects \in TargetSites
    /\ ensure_args = NoEnsureArgs

siteFrame == <<action, userDir, conn, dirExists, dir, should_delete_temp_dir,
               callNo, workbook_id, mwLocals, mwLogs, local_workbook, mainLog,
               credVars, exportVars, source_projects, moreVars>>

\* The switches of the site and source_projects = self.list_projects(...),
\* which catch nothing.
MS_List ==
    /\ pc = "ms_list"
    /\ \E ok \in BOOLEAN :
        /\ exc' = IF ok THEN exc ELSE "ServerError"
        /\ pc' = IF ~ok THEN "m_finally"
                 ELSE IF source_projects = <<>> THEN "ms_remaining"
                 ELSE "ms_top"
    /\ projIdx' = 1
    /\ calls' = {Call("source", "switch_site"), Call("target", "switch_site"),
                 Call("source", "list")}
    /\ UNCHANGED <<siteFrame, target_projects, project_map,
                   remaining_projects, projects_handled, ensured, siteLog>>

\* if not project.parent_id
IsTopLevel(project) == project.parent_id = NoParent

\* One pass of the first loop: a top-level project is ensured and mapped.
MS_TopLevel ==
    /\ pc = "ms_top"
    /\ LET project == source_projects[projIdx]
           last == projIdx = Len(source_projects)
       IN  \E ok \in BOOLEAN :
            /\ (ok \/ IsTopLevel(project))
            /\ IF ~IsTopLevel(project)
               THEN /\ calls' = {}
                    /\ UNCHANGED <<target_projects, project_map, ensured, exc>>
               ELSE IF ok
               THEN MapProject(project, NoParent) /\ UNCHANGED exc
               ELSE MapProjectFails
            /\ pc' = IF ~ok THEN "m_finally"
                     ELSE IF last THEN "ms_remaining" ELSE "ms_top"
    /\ projIdx' = projIdx + 1
    /\ UNCHANGED <<siteFrame, remaining_projects, projects_handled, siteLog>>

\* remaining_projects = [p for p in source_projects if p.parent_id]
MS_Remaining ==
    /\ pc = "ms_remaining"
    /\ remaining_projects' =
         SelectSeq(source_projects, LAMBDA p : ~IsTopLevel(p))
    /\ pc' = "ms_pass"
    /\ calls' = {}
    /\ UNCHANGED <<siteFrame, exc, target_projects, project_map,
                   projects_handled, projIdx, ensured, siteLog>>

\* while remaining_projects: projects_handled = []
MS_Pass ==
    /\ pc = "ms_pass"
    /\ IF remaining_projects # <<>>
       THEN /\ projects_handled' = <<>>
            /\ projIdx' = 1
            /\ pc' = "ms_child"
       ELSE /\ pc' = "ms_migrate"
            /\ UNCHANGED <<projects_handled, projIdx>>
    /\ calls' = {}
    /\ UNCHANGED <<siteFrame, exc, target_projects, project_map,
                   remaining_projects, ensured, siteLog>>

\* if project.parent_id in project_map
ParentIsMapped(project, m) == project.parent_id \in DOMAIN m

\* One pass of the loop over remaining_projects: a project whose parent is
\* mapped is ensured under the target of its parent, mapped and handled.
MS_Child ==
    /\ pc = "ms_child"
    /\ LET project == remaining_projects[projIdx]
           last == projIdx = Len(remaining_projects)
           mapped == ParentIsMapped(project, project_map)
       IN  \E ok \in BOOLEAN :
            /\ (ok \/ mapped)
            /\ IF ~mapped
               THEN /\ calls' = {}
                    /\ UNCHANGED <<target_projects, project_map, ensured, exc,
                                   projects_handled>>
               ELSE IF ok
               THEN /\ MapProject(project, project_map[project.parent_id])
                    /\ projects_handled' = Append(projects_handled, project)
                    /\ UNCHANGED exc
               ELSE MapProjectFails /\ UNCHANGED projects_handled
            /\ pc' = IF ~ok THEN "m_finally"
                     ELSE IF last THEN "ms_pass_end" ELSE "ms_child"
    /\ projIdx' = projIdx + 1
    /\ UNCHANGED <<siteFrame, remaining_projects, siteLog>>

\* A loop that takes no pass for a stalled one.
NeverStalled(handled) == FALSE

\* A loop that stops after its first pass.
AlwaysStalled(handled) == TRUE

\* if not projects_handled
Stalled(handled) == handled = <<>>

\* The end of a pass: a pass that handled nothing logs the error and breaks;
\* else the handled projects leave remaining_projects.
MS_PassEnd ==
    /\ pc = "ms_pass_end"
    /\ IF Stalled(projects_handled)
       THEN /\ siteLog' = siteLog \cup {"hierarchy_error"}
            /\ pc' = "ms_migrate"
            /\ UNCHANGED remaining_projects
       ELSE /\ remaining_projects' =
                 SelectSeq(remaining_projects,
                           LAMBDA p : \A i \in 1..Len(projects_handled) :
                                          projects_handled[i] # p)
            /\ pc' = "ms_pass"
            /\ UNCHANGED siteLog
    /\ calls' = {}
    /\ UNCHANGED <<siteFrame, exc, target_projects, project_map,
                   projects_handled, projIdx, ensured>>

\* A listing whose failure does not empty the result.
WorkbooksListedAnyway(wbs, failed) == wbs

\* workbooks = self.list_workbooks(self.source_server,
\*                                 project_id=source_project_id)
\* wbs are the workbooks of the project; list_workbooks logs a failure of the
\* enumeration and returns [].
WorkbooksListed(wbs, failed) == IF failed THEN <<>> ELSE wbs

\* A loop that takes every item twice.
ProjectMapItemsTwice(m, order) ==
    [i \in 1..(2 * Len(order)) |->
        [source |-> order[(i + 1) \div 2].source,
         target |-> m[order[(i + 1) \div 2].source]]]

\* project_map.items(): the items of the dict in the order of their
\* insertion, which is the order in which the projects were mapped.
ProjectMapItems(m, order) ==
    [i \in 1..Len(order) |->
        [source |-> order[i].source, target |-> m[order[i].source]]]

\* What the log keeps of a call of migrate_project: the source project, the
\* target project id it was given, how the listing of the workbooks ended
\* ("none": it was not reached), the migrate_workbook calls made, whether the
\* call has returned and the number of workbooks it then reported.
ProjectRecord(source, target, listing) ==
    [source |-> source, target |-> target, listing |-> listing, calls |-> 0,
     returned |-> FALSE, reported |-> 0]

\* for source_project_id, target_project_id in project_map.items():
\*     self.migrate_project(source_project_id, target_project_id)
\* One pass: migrate_project is called and runs up to its loop: the source
\* project is looked up (an error leaves migrate_site), the target project id
\* is given, so no project is ensured, and the workbooks are listed. After
\* the last pass migrate_site returns.
MS_Migrate ==
    /\ pc = "ms_migrate"
    /\ LET items == ProjectMapItems(project_map, ensured)
       IN  IF migIdx > Len(items)
           THEN /\ pc' = "m_finally"
                /\ siteLog' = siteLog \cup {"site_migrated"}
                /\ calls' = {}
                /\ UNCHANGED <<exc, workbooks, wbIdx, migrated>>
           ELSE \E found \in BOOLEAN, failed \in BOOLEAN,
                   n \in 0..(MaxCalls - callNo) :
                /\ (found \/ ~failed)
                /\ (found \/ n = 0)
                /\ exc' = IF found THEN exc ELSE "ServerError"
                /\ pc' = IF found THEN "ms_workbook" ELSE "m_finally"
                /\ workbooks' =
                     IF found
                     THEN WorkbooksListed([i \in 1..n |-> callNo + i], failed)
                     ELSE <<>>
                /\ wbIdx' = 1
                /\ migrated' =
                     Append(migrated,
                            ProjectRecord(items[migIdx].source,
                                          items[migIdx].target,
                                          IF ~found THEN "none"
                                          ELSE IF failed THEN "failed"
                                          ELSE "ok"))
                /\ siteLog' = IF found /\ failed
                              THEN siteLog \cup {"error_logged"} ELSE siteLog
                /\ calls' = {Call("source", "get_by_id")} \cup
                            (IF found THEN {Call("source", "list")} ELSE {})
    /\ UNCHANGED <<action, userDir, conn, dirExists, dir,
                   should_delete_temp_dir, callNo, workbook_id, mwLocals,
                   mwLogs, local_workbook, mainLog, credVars, exportVars,
                   source_projects>>
    /\ UNCHANGED <<ctorVars, listVars, migIdx, ensureVars, source_project>>
    /\ UNCHANGED <<target_projects, project_map, remaining_projects,
                   projects_handled, projIdx, ensured>>

\* The record of the running call of migrate_project, with a change.
WithLast(log, field, value) ==
    [log EXCEPT ![Len(log)] = [@ EXCEPT ![field] = value]]

\* for workbook in workbooks: self.migrate_workbook(...), and the report
\* "Successfully migrated {len(workbooks)} workbooks" after the loop.
\* migrate_workbook (the steps MW_Verify to MW_Finally) is taken as one call
\* that downloads and publishes, or raises, which leaves migrate_site.
MS_Workbook ==
    /\ pc = "ms_workbook"
    /\ IF wbIdx <= Len(workbooks)
       THEN \E download \in BOOLEAN, publish \in BOOLEAN :
            /\ (download \/ ~publish)
            /\ callNo' = callNo + 1
            /\ workbook_id' = workbooks[wbIdx]
            /\ wbIdx' = wbIdx + 1
            /\ migrated' = WithLast(migrated, "calls",
                                    migrated[Len(migrated)].calls + 1)
            /\ exc' = IF publish THEN exc ELSE "MigrateError"
            /\ pc' = IF publish THEN "ms_workbook" ELSE "m_finally"
            /\ calls' = {Call("source", "get_by_id")} \cup
                        (IF download THEN {Call("source", "download")}
                         ELSE {}) \cup
                        (IF download THEN {Call(PublishedOn, "publish")}
                         ELSE {})
            /\ UNCHANGED migIdx
       ELSE /\ migrated' =
                 WithLast(WithLast(migrated, "returned", TRUE),
                          "reported", Len(workbooks))
            /\ migIdx' = migIdx + 1
            /\ pc' = "ms_migrate"
            /\ calls' = {}
            /\ UNCHANGED <<callNo, workbook_id, wbIdx, exc>>
    /\ UNCHANGED <<action, userDir, conn, dirExists, dir,
                   should_delete_temp_dir, mwLocals, mwLogs, local_workbook,
                   mainLog, credVars, exportVars, source_projects>>
    /\ UNCHANGED <<ctorVars, listVars, workbooks, ensureVars, source_project>>
    /\ UNCHANGED siteVars

SiteNext ==
    \/ MS_List
    \/ MS_TopLevel
    \/ MS_Remaining
    \/ MS_Pass
    \/ MS_Child
    \/ MS_PassEnd
    \/ M_Finally

\* The passes over the hierarchy and the loop that migrates the projects.
MigrateSiteNext ==
    \/ SiteNext
    \/ MS_Migrate
    \/ MS_Workbook

\* ----------------------------------------------- automate_workbook_export.main

\* A name in which the spaces are kept.
KeepsSpaces(t) == t

\* safe_filename = root_name.replace(' ', '_')
ReplaceSpaces(t) == [i \in 1..Len(t) |-> IF t[i] = " " THEN "_" ELSE t[i]]

\* os.path.join(download_dir, safe_filename + ext)
Candidate(ext) == FileName(ReplaceSpaces(workbook_name), ext)

\* The path of a file of the download directory, as a text.
PathText(file) == DownloadDir \o <<"/">> \o file.stem \o <<file.ext>>

Last(S) == CHOOSE i \in S : \A j \in S : j <= i

\* os.path.basename(path)
BaseName(t) ==
    LET seps == {i \in 1..Len(t) : t[i] = "/"}
    IN  IF seps = {} THEN t ELSE SubSeq(t, Last(seps) + 1, Len(t))

\* Path(path).stem: the final component without its last suffix.
Stem(t) ==
    LET b == BaseName(t)
        dots == {i \in 2..Len(b) : b[i] \in Suffixes}
    IN  IF dots = {} THEN b ELSE SubSeq(b, 1, Last(dots) - 1)

\* url.rstrip('/')
RECURSIVE RStripSlash(_)
RStripSlash(t) ==
    IF t # <<>> /\ t[Len(t)] = "/" THEN RStripSlash(SubSeq(t, 1, Len(t) - 1))
    ELSE t

\* download_dir = args.download_dir or tempfile.mkdtemp(); the migrator is
\* given the directory, so it never owns it.
X_New ==
    /\ pc = "start"
    /\ action = "export"
    /\ dirExists' = TRUE
    /\ should_delete_temp_dir' = ShouldDeleteTempDir(TRUE)
    /\ self_logger' = SelfLogger(logger)
    /\ pc' = "x_connect"
    /\ calls' = {}
    /\ UNCHANGED <<args, conn, exc, dir, callNo, workbook_id, mwLocals,
                   mwLogs, local_workbook>>
    /\ UNCHANGED <<logger, verify_ssl, listVars, projectVars, ensureVars,
                   source_project>>
    /\ UNCHANGED <<credVars, exportVars, siteVars>>

\* What the log of the pipeline keeps of a step that ran.
StepRecord(step, ok) == [step |-> step, ok |-> ok]

\* download_tableau_workbook: migrator.connect_to_source()
X_Connect ==
    /\ pc = "x_connect"
    /\ \E o \in ConnectOutcomesOf(credentials.source) :
        /\ source_server' = ServerAfter(o)
        /\ exc' = ConnectExc(o)
        /\ signIns' = SignIn("source", o)
        /\ calls' = SignInCalls("source", o)
        /\ steps' = IF o = "ok" THEN steps
                    ELSE Append(steps, StepRecord("download", FALSE))
        /\ pc' = IF o = "ok" THEN "x_find" ELSE "x_finally"
    /\ UNCHANGED <<args, target_server, dirExists, dir,
                   should_delete_temp_dir, callNo, workbook_id, mwLocals,
                   mwLogs, local_workbook>>
    /\ UNCHANGED moreVars
    /\ UNCHANGED <<credentials, workbook_name, nexus_url, zip_path, archive,
                   response, excMsg, sb, new_branch_name, remote, siteVars>>

\* if len(source_project_id_or_name) > 20:  # likely a UUID
LooksLikeId(t) == Len(t) > IdThreshold

\* The id of no project: project_id = None.
NoId == <<>>

\* for p in projects: if p.name.lower() == source_project_id_or_name.lower():
\*     project_id = p.id; break
FirstNamed(projects, name) ==
    LET named == {i \in DOMAIN projects :
                      Lower(projects[i].name) = Lower(name)}
    IN  IF named = {} THEN NoId
        ELSE projects[CHOOSE i \in named : \A j \in named : i <= j].id

\* The project id download_tableau_workbook looks the workbook up in: the
\* argument itself when it is longer than 20 characters, the id of the first
\* project with its name otherwise.
ResolveProject(projects, t) ==
    IF LooksLikeId(t) THEN t ELSE FirstNamed(projects, t)

\* f"Project '{source_project_id_or_name}' not found on Tableau server"
ProjectNotFound(t) ==
    <<"Project '">> \o t \o <<"' not found on Tableau server">>

\* f"Workbook '{workbook_name}' not found in project
\*   '{source_project_id_or_name}'"
WorkbookNotFound(name, t) ==
    <<"Workbook '">> \o name \o <<"' not found in project '">> \o t \o <<"'">>

\* The --source-project arguments: a name in another case than the project's,
\* the name of no project, a name of 21 characters of a project and of no
\* project, the id of a project and a name of exactly 20 characters.
ProjectArgs ==
    {ShortName, <<"x">>, LongName, OtherLongName, Uuid("1"),
     Chars("x", IdThreshold)}

\* The projects of the source site of an export.
ExportSites ==
    {<<Project(Uuid("1"), ShortNameLower, NoParent),
       Project(Uuid("2"), LongName, NoParent)>>,
     <<Project(Uuid("1"), ShortName, NoParent),
       Project(Uuid("2"), ShortNameLower, NoParent),
       Project(Uuid("3"), Chars("x", IdThreshold), NoParent)>>,
     <<>>}

\* download_tableau_workbook: the project is resolved and the workbook is
\* looked up in it, or an exception is raised. list_projects is called, and
\* can raise, only for an argument of at most 20 characters;
\* find_workbook_by_name returns a workbook only of a project of the site.
X_Find ==
    /\ pc = "x_find"
    /\ \E listed_ok \in BOOLEAN, found \in BOOLEAN :
        LET by_name == ~LooksLikeId(source_project)
            raised == by_name /\ ~listed_ok
            pid == ResolveProject(source_projects, source_project)
            lookup == ~raised /\ pid # NoId
            in_site == \E i \in DOMAIN source_projects :
                           SameProject(IdValue("str", source_projects[i].id),
                                       IdValue("str", pid))
        IN  /\ listed_ok \/ by_name
            /\ found => lookup /\ in_site
            /\ project_id' = IF lookup THEN IdValue("str", pid)
                             ELSE project_id
            /\ IF found
               THEN /\ callNo' = callNo + 1
                    /\ workbook_id' = callNo + 1
                    /\ extIdx' = 1
                    /\ dlLog' = <<>>
                    /\ pc' = "x_ext"
                    /\ UNCHANGED <<exc, excMsg>>
               ELSE /\ exc' = IF raised THEN "ServerError" ELSE "Exception"
                    /\ excMsg' =
                           IF raised THEN excMsg
                           ELSE IF ~lookup
                           THEN ProjectNotFound(source_project)
                           ELSE WorkbookNotFound(workbook_name, source_project)
                    /\ pc' = "x_finally"
                    /\ UNCHANGED <<callNo, workbook_id, extIdx, dlLog>>
            /\ steps' = IF found THEN steps
                        ELSE Append(steps, StepRecord("download", FALSE))
            /\ mainLog' = mainLog
                   \cup (IF by_name THEN {"projects_listed"} ELSE {})
                   \cup (IF lookup THEN {"workbook_lookup"} ELSE {})
    /\ calls' = {Call("source", "list")}
    /\ UNCHANGED <<action, userDir, conn, dirExists, dir,
                   should_delete_temp_dir, wfBound, workbook_file, downloaded,
                   error_messages, pubLog, mwLog, local_workbook>>
    /\ UNCHANGED <<ctorVars, all_workbooks, list_result, projectVars,
                   ensureVars, source_project>>
    /\ UNCHANGED <<credVars, workbook_name, nexus_url, zip_path, archive,
                   response, sb, new_branch_name, remote, siteVars>>

\* if os.path.exists(candidate) and os.path.getsize(candidate) > 0
AcceptsCandidate(d, path) == Exists(d, path) /\ GetSize(d, path) > 0

\* One pass of the loop over ['.twbx', '.twb'] of download_tableau_workbook;
\* after the last pass the Exception "Unable to download" is raised.
X_DownloadExt ==
    /\ pc = "x_ext"
    /\ \E o \in DlOutcomes :
        LET ext == FileExtensions[extIdx]
            path == Candidate(ext)
            d1 == DlEffect(dir, path, o, workbook_id, callNo)
            got == ~DlRaised(o) /\ AcceptsCandidate(d1, path)
            last == extIdx = Len(FileExtensions)
        IN  /\ dir' = d1
            /\ dlLog' = Append(dlLog, DlRecord(ext, o, d1, path))
            /\ local_workbook' = IF got THEN path ELSE local_workbook
            /\ extIdx' = extIdx + 1
            /\ exc' = IF ~got /\ last THEN "Exception" ELSE exc
            /\ steps' = IF got THEN Append(steps, StepRecord("download", TRUE))
                        ELSE IF last
                        THEN Append(steps, StepRecord("download", FALSE))
                        ELSE steps
            /\ pc' = IF got THEN "x_zip"
                     ELSE IF last THEN "x_finally" ELSE "x_ext"
    /\ calls' = {Call("source", "download")}
    /\ UNCHANGED <<args, conn, dirExists, should_delete_temp_dir, callNo,
                   workbook_id, wfBound, workbook_file, downloaded,
                   error_messages, pubLog, mwLog>>
    /\ UNCHANGED moreVars
    /\ UNCHANGED <<credVars, workbook_name, nexus_url, zip_path, archive,
                   response, excMsg, sb, new_branch_name, remote, siteVars>>

\* The steps after the download, in the order of main.
PipelineSteps == <<"x_zip", "x_upload", "x_branch", "x_commit", "x_pr">>

StepIndex(p) == CHOOSE i \in 1..Len(PipelineSteps) : PipelineSteps[i] = p

\* A pipeline that goes on to the next step after a step that failed.
ContinuesAfterFailure(p, ok) ==
    IF StepIndex(p) < Len(PipelineSteps)
    THEN PipelineSteps[StepIndex(p) + 1] ELSE "x_finally"

\* main's try: the statements run in order; an exception of one of them
\* leaves the try for the finally.
StepAfter(p, ok) ==
    IF ok /\ StepIndex(p) < Len(PipelineSteps)
    THEN PipelineSteps[StepIndex(p) + 1] ELSE "x_finally"

\* An archive entry named by the whole path of the file.
ArcNameFullPath(input_filepath) == input_filepath

\* arcname=os.path.basename(input_filepath)
ArcName(input_filepath) == BaseName(input_filepath)

\* if not zip_path: zip_path = input_filepath + '.zip'
ZipPath(input_filepath, given) ==
    IF given = <<>> THEN input_filepath \o <<".zip">> ELSE given

\* zipfile.ZipFile(zip_path, 'w') and zipf.write: the archive is written
\* anew, with the file as its one entry.
ZipEntries(input_filepath) == <<ArcName(input_filepath)>>

\* zip_path = zip_file(local_workbook); a failure to write raises.
X_Zip ==
    /\ pc = "x_zip"
    /\ \E ok \in BOOLEAN :
        /\ zip_path' = IF ok THEN ZipPath(PathText(local_workbook), <<>>)
                       ELSE zip_path
        /\ archive' = IF ok THEN ZipEntries(PathText(local_workbook))
                      ELSE archive
        /\ exc' = IF ok THEN exc ELSE "OSError"
        /\ steps' = Append(steps, StepRecord("zip", ok))
        /\ pc' = StepAfter(pc, ok)
    /\ calls' = {}
    /\ UNCHANGED <<args, conn, dirExists, dir, should_delete_temp_dir, callNo,
                   workbook_id, mwLocals, mwLogs, local_workbook>>
    /\ UNCHANGED moreVars
    /\ UNCHANGED <<credVars, workbook_name, nexus_url, response, excMsg, sb,
                   new_branch_name, remote, siteVars>>

\* The statuses and the bodies of the responses of the artifact server; a
\* request that gets no response raises in requests.put.
Statuses == {200, 201, 202, 204, 404, 500}

Bodies == { <<"denied">>, <<"stored">> }

Responses ==
    {NoResponse} \cup [status : Statuses, text : Bodies]

\* An upload that takes every 2xx status for a success.
UploadSucceedsOn2xx(status) == status \in 200..299

\* if response.status_code in (200, 201, 204)
UploadSucceeds(status) == status \in {200, 201, 204}

\* upload_url = nexus_url.rstrip('/') + '/' + filename
UploadUrl(url, path) == RStripSlash(url) \o <<"/">> \o BaseName(path)

\* raise Exception(f"Nexus upload failed: {response.text}")
UploadFailure(text) == <<"Nexus upload failed: ">> \o text

\* An artifact on the artifact server.
Artifact(url) == [kind |-> "artifact", url |-> url]

\* upload_to_nexus(zip_path, NEXUS_URL, ...): the server stores the artifact
\* when it answers with a 2xx status.
X_Upload ==
    /\ pc = "x_upload"
    /\ \E r \in Responses :
        LET answered == r # NoResponse
            ok == answered /\ UploadSucceeds(r.status)
        IN  /\ response' = r
            /\ remote' = IF answered /\ r.status \in 200..299
                         THEN remote \cup {Artifact(UploadUrl(nexus_url, zip_path))}
                         ELSE remote
            /\ exc' = IF ok THEN exc
                      ELSE IF answered THEN "Exception" ELSE "ConnectionError"
            /\ excMsg' = IF answered /\ ~ok THEN UploadFailure(r.text)
                         ELSE excMsg
            /\ steps' = Append(steps, StepRecord("upload", ok))
            /\ pc' = StepAfter(pc, ok)
    /\ calls' = {}
    /\ UNCHANGED <<args, conn, dirExists, dir, should_delete_temp_dir, callNo,
                   workbook_id, mwLocals, mwLogs, local_workbook>>
    /\ UNCHANGED moreVars
    /\ UNCHANGED <<credVars, workbook_name, nexus_url, zip_path, archive, sb,
                   new_branch_name, siteVars>>

\* base_branch='main'
BaseBranch == <<"main">>

\* The head commits get_branch may find, and the times of the clock.
Shas == {"sha1", "sha2"}

Timestamps == {"t1", "t2"}

\* f'tableau-wb-{Path(local_file).stem}-{datetime.utcnow().strftime(...)}'
NewBranchName(local_file, timestamp) ==
    <<"tableau-wb-">> \o Stem(local_file) \o <<"-", timestamp>>

\* What exists on the source-control host.
Branch(name, sha) == [kind |-> "branch", name |-> name, sha |-> sha]

CommittedFile(path, branch) == [kind |-> "file", path |-> path, branch |-> branch]

PullRequest(head, base) == [kind |-> "pull", head |-> head, base |-> base]

\* push_to_github_and_pr up to the branch: get_repo, get_branch(base_branch)
\* and create_git_ref(ref=refs/heads/new_branch_name, sha=sb.commit.sha).
X_Branch ==
    /\ pc = "x_branch"
    /\ \E ok \in BOOLEAN, sha \in Shas, timestamp \in Timestamps :
        /\ sb' = IF ok THEN [name |-> BaseBranch, sha |-> sha] ELSE sb
        /\ new_branch_name' =
             IF ok THEN NewBranchName(PathText(local_workbook), timestamp)
             ELSE new_branch_name
        /\ remote' = IF ok THEN remote \cup {Branch(new_branch_name', sha)}
                     ELSE remote
        /\ exc' = IF ok THEN exc ELSE "GithubException"
        /\ steps' = Append(steps, StepRecord("branch", ok))
        /\ pc' = StepAfter(pc, ok)
    /\ calls' = {}
    /\ UNCHANGED <<args, conn, dirExists, dir, should_delete_temp_dir, callNo,
                   workbook_id, mwLocals, mwLogs, local_workbook>>
    /\ UNCHANGED moreVars
    /\ UNCHANGED <<credVars, workbook_name, nexus_url, zip_path, archive,
                   response, excMsg, siteVars>>

\* The file is read and repo.create_or_update_file(
\*   path=os.path.basename(local_file), ..., branch=new_branch_name)
X_Commit ==
    /\ pc = "x_commit"
    /\ \E ok \in BOOLEAN :
        /\ remote' = IF ok
                     THEN remote \cup
                          {CommittedFile(BaseName(PathText(local_workbook)),
                                         new_branch_name)}
                     ELSE remote
        /\ exc' = IF ok THEN exc ELSE "GithubException"
        /\ steps' = Append(steps, StepRecord("commit", ok))
        /\ pc' = StepAfter(pc, ok)
    /\ calls' = {}
    /\ UNCHANGED <<args, conn, dirExists, dir, should_delete_temp_dir, callNo,
                   workbook_id, mwLocals, mwLogs, local_workbook>>
    /\ UNCHANGED moreVars
    /\ UNCHANGED <<credVars, workbook_name, nexus_url, zip_path, archive,
                   response, excMsg, sb, new_branch_name, siteVars>>

\* repo.create_pull(..., head=new_branch_name, base=base_branch)
X_PR ==
    /\ pc = "x_pr"
    /\ \E ok \in BOOLEAN :
        /\ remote' = IF ok
                     THEN remote \cup {PullRequest(new_branch_name, BaseBranch)}
                     ELSE remote
        /\ exc' = IF ok THEN exc ELSE "GithubException"
        /\ steps' = Append(steps, StepRecord("pr", ok))
        /\ pc' = StepAfter(pc, ok)
    /\ calls' = {}
    /\ UNCHANGED <<args, conn, dirExists, dir, should_delete_temp_dir, callNo,
                   workbook_id, mwLocals, mwLogs, local_workbook>>
    /\ UNCHANGED moreVars
    /\ UNCHANGED <<credVars, workbook_name, nexus_url, zip_path, archive,
                   response, excMsg, sb, new_branch_name, siteVars>>

\* if not args.download_dir and os.path.isdir(download_dir)
RemovesDownloadDir(download_dir_given, exists) == ~download_dir_given /\ exists

\* main's finally: shutil.rmtree(download_dir), whose failure propagates.
X_Finally ==
    /\ pc = "x_finally"
    /\ \E removed \in BOOLEAN :
        LET rmtree == RemovesDownloadDir(userDir, dirExists)
        IN  /\ (removed \/ rmtree)
            /\ dirExists' = IF rmtree /\ removed THEN FALSE ELSE dirExists
            /\ dir' = IF rmtree /\ removed THEN <<>> ELSE dir
            /\ exc' = IF rmtree /\ ~removed THEN "RmtreeError" ELSE exc
            /\ mainLog' = IF rmtree /\ ~removed
                          THEN mainLog \cup {"rmtree_failed"} ELSE mainLog
    /\ pc' = "exit"
    /\ calls' = {}
    /\ UNCHANGED <<action, userDir, conn, should_delete_temp_dir, callNo,
                   workbook_id, mwLocals, mwLogs, local_workbook>>
    /\ UNCHANGED moreVars
    /\ UNCHANGED <<credVars, exportVars, siteVars>>

\* ------------------------------------------------------------ specification

Next ==
    \/ M_New
    \/ M_ConnectSource
    \/ M_ConnectTarget
    \/ M_List
    \/ M_Lookup
    \/ MP_Start
    \/ MP_Loop
    \/ MW_Verify
    \/ MW_DownloadExt
    \/ MW_DownloadAlt
    \/ MW_DownloadAltRetry
    \/ MW_Open
    \/ MW_Publish
    \/ MW_PublishRetry
    \/ MW_Finally
    \/ MW_Return
    \/ M_Finally
    \/ X_New
    \/ X_Connect
    \/ X_Find
    \/ X_DownloadExt
    \/ X_Zip
    \/ X_Upload
    \/ X_Branch
    \/ X_Commit
    \/ X_PR
    \/ X_Finally

Spec == Init /\ [][Next]_vars

\* The connects alone, under every setting of the credentials that reaches
\* them.
ConnInit ==
    /\ InitBase
    /\ SampleProject
    /\ MainLogger
    /\ NoListing
    /\ credentials \in GivenCredentials(action)

ConnNext ==
    \/ M_New
    \/ X_New
    \/ M_ConnectSource
    \/ M_ConnectTarget
    \/ X_Connect

ConnSpec == ConnInit /\ [][ConnNext]_vars

\* The constructor alone, under every setting of its arguments logger,
\* verify_ssl and download_dir that a caller of the class can give.
NewInit ==
    /\ InitBase
    /\ SampleProject
    /\ NoListing
    /\ action # "export"
    /\ credentials \in GivenCredentials(action)
    /\ logger \in {"None", "given"}
    /\ verify_ssl \in BOOLEAN

NewNext == M_New

NewSpec == NewInit /\ [][NewNext]_vars

\* --list-workbooks, for every site and every project id of the bounds.
ListInit ==
    /\ InitBase
    /\ SampleProject
    /\ MainLogger
    /\ action = "list_workbooks"
    /\ credentials = [source |-> TokenAndUsername, target |-> NoCredential]
    /\ all_workbooks \in SiteWorkbooks
    /\ project_id \in ProjectIdArgs

ListNext ==
    \/ M_New
    \/ M_ConnectSource
    \/ M_List
    \/ M_Finally

ListSpec == ListInit /\ [][ListNext]_vars

\* The export pipeline up to the lookup of the workbook, for every
\* --source-project and every source site of ProjectArgs and ExportSites.
FindInit ==
    /\ InitBase
    /\ MainLogger
    /\ NoListing
    /\ action = "export"
    /\ credentials = [source |-> TokenAndUsername, target |-> NoCredential]
    /\ source_project \in ProjectArgs
    /\ source_projects \in ExportSites

FindNext ==
    \/ X_New
    \/ X_Connect
    \/ X_Find

FindSpec == FindInit /\ [][FindNext]_vars

\* migrate_site from the listing of the projects to the end of the passes
\* over the hierarchy.
SiteSpec == SiteInit /\ [][SiteNext]_vars

\* The program is sequential: it takes its next step while it has one.
SiteLive == SiteSpec /\ WF_vars(SiteNext)

\* Two calls of ensure_project_exists with the same arguments, for every
\* target site and every argument of the bounds.
EnsureInit ==
    /\ BothConnected
    /\ action = "migrate_project"
    /\ pc = "en_call"
    /\ source_projects = <<>>
    /\ target_projects \in EnsureTargets
    /\ ensure_args \in EnsureArgs

EnsureNext ==
    \/ EN_Ensure
    \/ EN_Other

EnsureSpec == EnsureInit /\ [][EnsureNext]_vars

\* migrate_site from the listing of the projects to its return, for the
\* sites of up to MaxMigrated projects.
MigrateSiteInit ==
    /\ SiteInit
    /\ Len(source_projects) <= MaxMigrated

MigrateSiteSpec == MigrateSiteInit /\ [][MigrateSiteNext]_vars

\* The invocations of Spec and the ones of SiteSpec.
CopyInit == Init \/ SiteInit

CopyNext == Next \/ SiteNext

CopySpec == CopyInit /\ [][CopyNext]_vars

\* ------------------------------------------------------------------ claims

\* A download call to a file path succeeded: it returned and the file is
\* there and not empty.
Succeeded(r) == r.kind = "file" /\ ~r.raised /\ r.exists /\ r.size > 0

\* A download call to a file path returned and left a zero-byte file.
ZeroByte(r) == r.kind = "file" /\ ~r.raised /\ r.exists /\ r.size = 0

IsDirCall(r) == r.kind \in {"dir", "dir_plain"}

\* The path of an extension in the loop of the routine that is running.
LoopPath(ext) ==
    IF action = "export" THEN Candidate(ext) ELSE ExtPath(workbook_id, ext)

\* The routine took the path p: migrate_workbook holds it as the downloaded
\* file and publishes no other; download_tableau_workbook returned it.
Used(p) ==
    IF action = "export" THEN local_workbook = p
    ELSE /\ downloaded
         /\ workbook_file = p
         /\ \A i \in 1..Len(pubLog) : pubLog[i].file = p

\* No download attempt of the current call yielded a file: no extension
\* succeeded, and each download into the directory raised, returned a path
\* at which nothing exists, or returned None with no workbook file to find.
NoAttemptYielded ==
    \A i \in 1..Len(dlLog) :
        IF dlLog[i].kind = "file" THEN ~Succeeded(dlLog[i])
        ELSE \/ dlLog[i].exc # "none"
             \/ dlLog[i].ret = "missing"
             \/ (dlLog[i].ret = "none" /\ ~dlLog[i].scan)

\* C1: a create-new publish is issued only after an overwrite publish of the
\* same file was issued and failed; a call makes at most two publish calls,
\* and none after an overwrite publish that succeeded.
C1_CreateNewOnlyAfterFailedOverwrite ==
    /\ Len(pubLog) <= 2
    /\ \A i \in 1..Len(pubLog) :
        pubLog[i].mode = "CreateNew" =>
            /\ i = 2
            /\ pubLog[1].mode = "Overwrite"
            /\ ~pubLog[1].ok
            /\ pubLog[1].file = pubLog[i].file
    /\ (Len(pubLog) >= 1 /\ pubLog[1].mode = "Overwrite" /\ pubLog[1].ok)
            => Len(pubLog) = 1

\* C2: when migrate_workbook ends without an exception, one of its publish
\* calls succeeded; when both publish calls failed, the error of the second
\* one reaches the caller.
C2_RaisesWhenBothPublishesFail ==
    pc = "mw_return" =>
        /\ exc = "none" => \E i \in 1..Len(pubLog) : pubLog[i].ok
        /\ (Len(pubLog) = 2 /\ ~pubLog[1].ok /\ ~pubLog[2].ok)
                => exc = "retry_error"

C2_Witness ==
    /\ pc = "mw_return"
    /\ Len(pubLog) = 2
    /\ ~pubLog[1].ok
    /\ ~pubLog[2].ok
    /\ exc = "retry_error"

\* C3: when the lookup of the workbook fails, migrate_workbook ends with the
\* ValueError at its caller, after the listing of the siblings and without
\* any download or publish call.
C3_LookupFailureRaisesValueError ==
    (pc = "mw_return" /\ "lookup_failed" \in mwLog) =>
        /\ dlLog = <<>>
        /\ pubLog = <<>>
        /\ mwLog \cap {"siblings_listed", "siblings_list_failed"} # {}
        /\ exc = "ValueError"

\* C4: both loops try .twbx and then .twb; when the .twbx call succeeds no
\* other download is attempted and the .twbx path is the one taken; when only
\* the .twb call succeeds the .twb path is the one taken.
C4_FirstSucceedingExtensionIsTaken ==
    /\ \A i \in 1..Len(dlLog) :
        dlLog[i].kind = "file" =>
            /\ i <= 2
            /\ dlLog[i].ext = (IF i = 1 THEN ".twbx" ELSE ".twb")
    /\ (Len(dlLog) >= 1 /\ Succeeded(dlLog[1]))
            => (Len(dlLog) = 1 /\ Used(LoopPath(".twbx")))
    /\ (Len(dlLog) >= 2 /\ ~Succeeded(dlLog[1]) /\ Succeeded(dlLog[2]))
            => (Len(dlLog) = 2 /\ Used(LoopPath(".twb")))

C4_Witness ==
    /\ Len(dlLog) = 2
    /\ ~Succeeded(dlLog[1])
    /\ Succeeded(dlLog[2])
    /\ Len(pubLog) >= 1
    /\ pubLog[1].file = ExtPath(workbook_id, ".twb")

\* C5: every file that migrate_workbook passes to publish exists and is not
\* empty.
C5_PublishedFileIsNonEmpty ==
    \A i \in 1..Len(pubLog) : pubLog[i].exists /\ pubLog[i].size > 0

\* C6: in both loops a download call that leaves a zero-byte file is not taken
\* as a success, the file is removed from the directory, and the next
\* extension is tried.
C6_ZeroByteFileIsRemoved ==
    \A i \in 1..Len(dlLog) :
        ZeroByte(dlLog[i]) =>
            /\ ~Used(LoopPath(dlLog[i].ext))
            /\ ~Exists(dir, LoopPath(dlLog[i].ext))
            /\ i < Len(FileExtensions) =>
                    (Len(dlLog) > i \/ pc \in {"mw_ext", "x_ext"})

\* C7: publish is called only after a download attempt was accepted; when no
\* download attempt yields a file, migrate_workbook ends with the
\* FileNotFoundError at its caller and without a publish call.
C7_NoDownloadNoPublish ==
    /\ (pubLog # <<>> \/ pc \in {"mw_open", "mw_publish", "mw_publish_retry"})
            => (downloaded /\ ~NoAttemptYielded)
    /\ (pc = "mw_return" /\ dlLog # <<>> /\ NoAttemptYielded)
            => (exc = "FileNotFoundError" /\ pubLog = <<>>)

C7_Witness ==
    /\ pc = "mw_return"
    /\ Len(dlLog) = 4
    /\ NoAttemptYielded
    /\ exc = "FileNotFoundError"
    /\ pubLog = <<>>

\* C8: the download into the directory is called only after both extension
\* attempts failed; the call without include_extract is made once, and only
\* after a TypeError of the first call, which always leads to it; any other
\* exception of either call is recorded and ends the downloads with the
\* FileNotFoundError.
C8_AlternateDownloadCalls ==
    /\ Len(dlLog) <= 4
    /\ \A i \in 1..Len(dlLog) :
        IsDirCall(dlLog[i]) =>
            /\ i > Len(FileExtensions)
            /\ \A j \in 1..Len(FileExtensions) :
                dlLog[j].kind = "file" /\ ~Succeeded(dlLog[j])
            /\ dlLog[i].kind = "dir" => i = 3
            /\ dlLog[i].kind = "dir_plain" =>
                (i = 4 /\ dlLog[3].kind = "dir" /\ dlLog[3].exc = "TypeError")
            /\ (dlLog[i].kind = "dir" /\ dlLog[i].exc = "TypeError") =>
                \/ Len(dlLog) = 4 /\ dlLog[4].kind = "dir_plain"
                \/ Len(dlLog) = 3 /\ pc = "mw_alt_retry"
            /\ (dlLog[i].exc # "none" /\
                    ~(dlLog[i].kind = "dir" /\ dlLog[i].exc = "TypeError")) =>
                /\ i = Len(dlLog)
                /\ ~downloaded
                /\ error_messages[Len(error_messages)] = "alt_failed"
                /\ exc = "FileNotFoundError"
                /\ pubLog = <<>>
                /\ pc \in {"mw_finally", "mw_return"}

C8_Witness ==
    /\ Len(dlLog) = 4
    /\ dlLog[3].exc = "TypeError"
    /\ dlLog[4].kind = "dir_plain"
    /\ dlLog[4].exc = "none"
    /\ downloaded
    /\ pc = "mw_publish"

\* C9, as claimed: after migrate_workbook ends, the file it downloaded is gone
\* from an auto-created directory and is still in a user-supplied one.
C9_TempFileDeletedIffAutoDir ==
    (pc = "mw_return" /\ downloaded) =>
        IF userDir THEN Exists(dir, workbook_file)
        ELSE ~Exists(dir, workbook_file)

\* C9, amended: after migrate_workbook ends, by return or by exception, the
\* file it downloaded is still in a user-supplied directory; in an
\* auto-created directory it is gone unless its removal failed, which is
\* logged and leaves the file.
C9_TempFileDeletedUnlessRemoveFails ==
    (pc = "mw_return" /\ downloaded) =>
        IF userDir THEN Exists(dir, workbook_file) /\ "remove_failed" \notin mwLog
        ELSE Exists(dir, workbook_file) <=> "remove_failed" \in mwLog

C9_Witness ==
    /\ pc = "mw_return"
    /\ downloaded
    /\ ~userDir
    /\ exc = "retry_error"
    /\ ~Exists(dir, workbook_file)
    /\ "remove_failed" \notin mwLog

\* C10: at the end of every invocation (in which no removal of the directory
\* failed) an auto-created download directory is gone and a user-supplied one
\* still exists.
C10_DirectoryLifecycle ==
    (pc = "exit" /\ "rmtree_failed" \notin mainLog) =>
        IF userDir THEN dirExists ELSE ~dirExists

\* C14: when the enumeration on the server fails, a listing operation logs
\* the error and returns an empty list; it raises nothing.
C14_ListingFailureReturnsEmpty ==
    (pc = "m_finally" /\ "enumeration_failed" \in mainLog) =>
        /\ exc = "none"
        /\ {"error_logged", "returned_empty"} \subseteq mainLog

\* The steps of the export pipeline, in their order.
StepOrder == <<"download", "zip", "upload", "branch", "commit", "pr">>

Ran(step, ok) == \E i \in 1..Len(steps) : steps[i] = [step |-> step, ok |-> ok]

\* C15: the steps of the export pipeline run in the order download, zip,
\* upload, branch, commit, pull request; a step runs only after every earlier
\* step succeeded; after a step that failed no step runs; what a step that
\* succeeded left on the artifact server or on the source-control host stays.
C15_PipelineOrder ==
    /\ Len(steps) <= Len(StepOrder)
    /\ \A i \in 1..Len(steps) :
        /\ steps[i].step = StepOrder[i]
        /\ i < Len(steps) => steps[i].ok
    /\ (steps # <<>> /\ ~steps[Len(steps)].ok) => pc \in {"x_finally", "exit"}
    /\ Ran("upload", TRUE) =>
            \E r \in remote : r.kind = "artifact"
    /\ Ran("branch", TRUE) =>
            \E r \in remote : r.kind = "branch" /\ r.name = new_branch_name
    /\ Ran("commit", TRUE) =>
            \E r \in remote : r.kind = "file" /\ r.branch = new_branch_name
    /\ Ran("pr", TRUE) =>
            \E r \in remote : r.kind = "pull" /\ r.head = new_branch_name

C15_Witness ==
    /\ pc = "exit"
    /\ Len(steps) = 5
    /\ Ran("commit", FALSE)
    /\ \E r \in remote : r.kind = "artifact"
    /\ \E r \in remote : r.kind = "branch" /\ r.name = new_branch_name

\* The text t holds the text part, in one piece.
Contains(t, part) ==
    \E i \in 0..Len(t) :
        i + Len(part) <= Len(t) /\ SubSeq(t, i + 1, i + Len(part)) = part

\* C16: upload_to_nexus returns normally exactly when the status of the
\* response is 200, 201 or 204; for any other status it raises an exception
\* whose message holds the body of the response.
C16_UploadStatus ==
    \A i \in 1..Len(steps) :
        (steps[i].step = "upload" /\ response # NoResponse) =>
            /\ steps[i].ok <=> response.status \in {200, 201, 204}
            /\ ~steps[i].ok =>
                /\ pc = "x_finally" => exc = "Exception"
                /\ excMsg # <<>>
                /\ Contains(excMsg, response.text)

C16_Witness ==
    /\ pc = "x_finally"
    /\ Ran("upload", FALSE)
    /\ response.status = 202
    /\ exc = "Exception"
    /\ Contains(excMsg, response.text)

\* The connect to the server s was called and has ended.
Connected(s) ==
    IF s = "source"
    THEN pc \notin {"start", "m_connect_source", "x_connect"}
    ELSE /\ action \in MigrateActions
         /\ source_server = "signed_in"
         /\ pc \notin {"start", "m_connect_source", "m_connect_target"}

StoredServer(s) == IF s = "source" THEN source_server ELSE target_server

\* C17: with neither a complete token (name and value) nor a username, a
\* connect raises ValueError, attempts no sign-in, creates no server object
\* and leaves the stored connection None; with a complete token and a
\* username, every sign-in it attempts uses the token.
C17_ConnectCredentials ==
    \A s \in {"source", "target"} :
        LET c == credentials[s]
            complete == c.token_name /\ c.token_value
            attempts == {i \in 1..Len(signIns) : signIns[i].server = s}
        IN  /\ (~complete /\ ~c.username) =>
                /\ attempts = {}
                /\ StoredServer(s) = "None"
                /\ Connected(s) => exc = "ValueError"
            /\ (complete \/ c.username) =>
                (Connected(s) => (attempts # {} /\ StoredServer(s) # "None"))
            /\ (complete /\ c.username) =>
                \A i \in attempts : signIns[i].auth = "token"

C17_Witness ==
    /\ pc = "m_finally"
    /\ credentials.target = TokenNameOnly
    /\ source_server = "signed_in"
    /\ target_server = "None"
    /\ exc = "ValueError"
    /\ Len(signIns) = 1

\* The part of the path x after its last separator is the text e, and e holds
\* no separator.
IsBaseNameOf(e, x) ==
    /\ \A i \in 1..Len(e) : e[i] # "/"
    /\ Len(e) <= Len(x)
    /\ SubSeq(x, Len(x) - Len(e) + 1, Len(x)) = e
    /\ (Len(e) < Len(x) => x[Len(x) - Len(e)] = "/")

\* C19: zip_file of the file X, with no archive path given, writes the
\* archive at X + '.zip' and returns that path; the archive holds exactly one
\* entry, whose name is the base name of X, without a directory part.
C19_ZipHasOneEntry ==
    Ran("zip", TRUE) =>
        /\ zip_path = PathText(local_workbook) \o <<".zip">>
        /\ Len(archive) = 1
        /\ IsBaseNameOf(archive[1], PathText(local_workbook))

C19_Witness ==
    /\ pc = "x_upload"
    /\ workbook_name = <<"a", "/", "b">>
    /\ archive = << <<"b", ".twb">> >>
    /\ zip_path = <<"dir", "/", "a", "/", "b", ".twb", ".zip">>

\* The name with an underscore for each space.
Underscored(t) == [i \in 1..Len(t) |-> IF t[i] = " " THEN "_" ELSE t[i]]

\* The text without the slashes at its end.
RECURSIVE WithoutTrailingSlashes(_)
WithoutTrailingSlashes(t) ==
    IF t = <<>> \/ t[Len(t)] # "/" THEN t
    ELSE WithoutTrailingSlashes(SubSeq(t, 1, Len(t) - 1))

\* Every step of the pipeline succeeded and the invocation has ended.
PipelineDone == pc = "exit" /\ Ran("pr", TRUE)

\* C20, as claimed: the download file is the workbook name N plus the
\* extension, the archive is that file plus '.zip', the PUT goes to
\* NEXUS_URL + '/' + the base name of the archive, the branch is
\* 'tableau-wb-' + N + '-' + timestamp, created from the head commit of main,
\* the file is committed on it, and the pull request goes from it to main.
C20_NamesDerivedFromWorkbookName ==
    PipelineDone =>
        \E ext \in {".twbx", ".twb"}, timestamp \in Timestamps :
            LET file == DownloadDir \o <<"/">> \o workbook_name \o <<ext>>
                branch == <<"tableau-wb-">> \o workbook_name \o <<"-", timestamp>>
            IN  /\ PathText(local_workbook) = file
                /\ zip_path = file \o <<".zip">>
                /\ \E r \in remote :
                    /\ r.kind = "artifact"
                    /\ IsBaseNameOf(SubSeq(r.url, Len(nexus_url) + 2, Len(r.url)),
                                    zip_path)
                    /\ SubSeq(r.url, 1, Len(nexus_url) + 1) = nexus_url \o <<"/">>
                /\ new_branch_name = branch
                /\ sb.name = <<"main">>
                /\ [kind |-> "branch", name |-> branch, sha |-> sb.sha] \in remote
                /\ \E r \in remote : r.kind = "file" /\ r.branch = branch
                /\ [kind |-> "pull", head |-> branch, base |-> <<"main">>] \in remote

\* C20, amended: the download file is S plus the extension, where S is N with
\* an underscore for each space; the archive is that file plus '.zip'; the
\* PUT goes to NEXUS_URL without its trailing slashes + '/' + the base name
\* of the archive; the branch is 'tableau-wb-' + the base name of the download
\* file without its extension + '-' + timestamp, created from the head commit
\* of main; the file is committed on it under its base name, and the pull
\* request goes from it to main.
C20_NamesDerivedFromSafeName ==
    PipelineDone =>
        \E ext \in {".twbx", ".twb"}, timestamp \in Timestamps,
           base \in {SubSeq(Underscored(workbook_name), k, Len(workbook_name)) :
                        k \in 1..Len(workbook_name)} :
            LET file == DownloadDir \o <<"/">> \o Underscored(workbook_name)
                            \o <<ext>>
                branch == <<"tableau-wb-">> \o base \o <<"-", timestamp>>
                url == WithoutTrailingSlashes(nexus_url) \o <<"/">> \o base
                            \o <<ext, ".zip">>
            IN  /\ IsBaseNameOf(base \o <<ext>>, file)
                /\ PathText(local_workbook) = file
                /\ zip_path = file \o <<".zip">>
                /\ [kind |-> "artifact", url |-> url] \in remote
                /\ new_branch_name = branch
                /\ sb.name = <<"main">>
                /\ [kind |-> "branch", name |-> branch, sha |-> sb.sha] \in remote
                /\ [kind |-> "file", path |-> base \o <<ext>>, branch |-> branch]
                        \in remote
                /\ [kind |-> "pull", head |-> branch, base |-> <<"main">>] \in remote

C20_Witness ==
    /\ PipelineDone
    /\ workbook_name = <<"a", " ", "b">>
    /\ nexus_url = <<"nexus", "/">>
    /\ local_workbook.stem = <<"a", "_", "b">>
    /\ [kind |-> "artifact", url |-> <<"nexus", "/", "a", "_", "b", ".twbx", ".zip">>]
            \in remote

\* The child-creation loop of migrate_site is running.
InChildLoop == pc \in {"ms_pass", "ms_child", "ms_pass_end"}

\* C11: whatever the listing holds (orphans and parent cycles included), the
\* child-creation loop of migrate_site is left; a pass that mapped no project
\* logs the error and goes on to the migration of the projects, without an
\* exception and without another pass.
C11_ChildLoopTerminates ==
    /\ InChildLoop ~> ~InChildLoop
    /\ [][(pc = "ms_pass_end" /\ projects_handled = <<>>) =>
            /\ pc' = "ms_migrate"
            /\ exc' = "none"
            /\ "hierarchy_error" \in siteLog']_vars

C11_Witness ==
    /\ pc = "ms_migrate"
    /\ "hierarchy_error" \in siteLog
    /\ exc = "none"
    /\ Len(remaining_projects) = 2
    /\ remaining_projects[1].parent_id = remaining_projects[2].id
    /\ remaining_projects[2].parent_id = remaining_projects[1].id

\* The chain of the parent ids of the project reaches a top-level project of
\* the listing in at most n steps.
RECURSIVE ReachesTopLevel(_, _)
ReachesTopLevel(project, n) ==
    \/ project.parent_id = <<>>
    \/ /\ n > 0
       /\ \E i \in 1..Len(source_projects) :
            /\ source_projects[i].id = project.parent_id
            /\ ReachesTopLevel(source_projects[i], n - 1)

\* C12: after the passes of migrate_site, every source project whose chain of
\* parent ids reaches a top-level project of the listing has an entry in the
\* project map, and the entry is a project of the target site.
C12_EveryReachableProjectIsMapped ==
    pc = "ms_migrate" =>
        \A i \in 1..Len(source_projects) :
            ReachesTopLevel(source_projects[i], Len(source_projects)) =>
                /\ source_projects[i].id \in DOMAIN project_map
                /\ \E t \in target_projects :
                    t.id = project_map[source_projects[i].id]

C12_Witness ==
    /\ pc = "ms_migrate"
    /\ Len(source_projects) = 3
    /\ source_projects[1].parent_id = source_projects[2].id
    /\ source_projects[2].parent_id = source_projects[3].id
    /\ source_projects[3].parent_id = <<>>
    /\ DOMAIN project_map = {source_projects[i].id : i \in 1..3}

\* The project of the listing with the id.
SourceProject(id) ==
    source_projects[CHOOSE i \in 1..Len(source_projects) :
                        source_projects[i].id = id]

\* C13: the target project found or created for a source project with a
\* parent has as its parent the target project mapped, earlier, from the
\* source parent; the target of a top-level project is a top-level project;
\* every top-level project of the listing is mapped before any child is.
C13_ParentsArePreserved ==
    \A i \in 1..Len(ensured) :
        LET p == SourceProject(ensured[i].source)
        IN  /\ ensured[i].target \in target_projects
            /\ project_map[p.id] = ensured[i].target.id
            /\ IF p.parent_id = <<>>
               THEN ensured[i].target.parent_id = <<>>
               ELSE /\ \E j \in 1..(i - 1) :
                        /\ ensured[j].source = p.parent_id
                        /\ ensured[i].target.parent_id = ensured[j].target.id
                    /\ \A k \in 1..Len(source_projects) :
                        source_projects[k].parent_id = <<>> =>
                            \E j \in 1..(i - 1) :
                                ensured[j].source = source_projects[k].id

C13_Witness ==
    /\ Len(ensured) = 3
    /\ ensured[2].created
    /\ ensured[2].target.parent_id = ensured[1].target.id
    /\ ~ensured[1].created
    /\ ensured[3].target.parent_id = ensured[2].target.id

\* C18: every call that creates or changes content (the creation of a project,
\* the publication of a workbook) is made to the target server; the calls made
\* to the source server sign in or out, switch the site, list, look up or
\* download.
C18_SourceIsOnlyRead ==
    \A c \in calls :
        /\ c.op \in {"create_project", "publish"} => c.server = "target"
        /\ c.server = "source" =>
            c.op \in {"sign_in", "sign_out", "switch_site", "list",
                      "get_by_id", "download"}

C18_Witness ==
    /\ pc = "mw_finally"
    /\ [server |-> "target", op |-> "publish"] \in calls
    /\ Len(pubLog) = 2
    /\ pubLog[2].ok

\* C28: constructing a TableauMigrator without a logger succeeds and installs
\* the default logger, whatever verify_ssl is; with verify_ssl false the
\* warning about the certificates is logged, and the construction completes
\* with the download directory set up.
C28_ConstructsWithoutLogger ==
    (pc # "start" /\ logger = "None") =>
        /\ exc = "none"
        /\ self_logger = "default"
        /\ dirExists
        /\ should_delete_temp_dir = ~userDir
        /\ ~verify_ssl => "ssl_warning" \in mainLog

\* The texts a and b are equal but for the case of their characters.
EqualIgnoringCase(a, b) ==
    /\ Len(a) = Len(b)
    /\ \A i \in 1..Len(a) :
        \/ a[i] = b[i]
        \/ {a[i], b[i]} \in {{"P", "p"}, {"N", "n"}, {"F", "f"}}

\* The text of an id as a string.
AsString(v) == IF v = NoProjectId THEN <<"N", "o", "n", "e">> ELSE v.text

\* C21: list_workbooks called with a project id returns exactly the
\* workbooks of the site, in the order of the enumeration, whose project id
\* equals the given id as strings, ignoring case; called without a project
\* id it returns every workbook of the site.
C21_ListWorkbooksFilter ==
    \A i \in 1..Len(list_result) :
        ~list_result[i].failed =>
            list_result[i].returned =
                IF project_id = NoProjectId \/ project_id.text = <<>>
                THEN all_workbooks
                ELSE SelectSeq(all_workbooks,
                        LAMBDA wb : EqualIgnoringCase(AsString(wb.project_id),
                                                      AsString(project_id)))

C21_Witness ==
    /\ pc = "exit"
    /\ project_id = IdValue("str", <<"P", "1">>)
    /\ Len(all_workbooks) = 3
    /\ all_workbooks[1].project_id = IdValue("str", <<"p", "2">>)
    /\ all_workbooks[2].project_id = IdValue("str", <<"p", "1">>)
    /\ all_workbooks[3].project_id = IdValue("str", <<"P", "1">>)
    /\ Len(list_result) = 1
    /\ ~list_result[1].failed
    /\ list_result[1].returned = <<all_workbooks[2], all_workbooks[3]>>

\* C22: the file that migrate_workbook gives to a publish call for the
\* workbook W was written by a download call for W made during that same
\* call of migrate_workbook; a file that an earlier call, an earlier run or
\* another workbook left in the download directory is never published as W.
C22_PublishedFileIsOfThisCall ==
    (pc \in {"mw_publish_retry", "mw_finally"}) =>
        \A i \in 1..Len(pubLog) :
            /\ Exists(dir, pubLog[i].file)
            /\ Entry(dir, pubLog[i].file).wb = workbook_id
            /\ Entry(dir, pubLog[i].file).call = callNo

\* C23: when the listing of the workbooks fails during migrate_project, the
\* failure is logged and list_workbooks returns an empty list: migrate_project
\* makes no migrate_workbook call, raises nothing and returns with a report of
\* zero workbooks; migrate_site then goes on with the next mapped project, or
\* returns when there is none.
C23_ListingFailureIsSkipped ==
    /\ [](\A i \in 1..Len(migrated) :
            migrated[i].listing = "failed" =>
                /\ migrated[i].calls = 0
                /\ migrated[i].reported = 0
                /\ "error_logged" \in siteLog
                /\ i = Len(migrated) => exc = "none"
                /\ (i = Len(migrated) /\ ~migrated[i].returned) =>
                        (pc = "ms_workbook" /\ workbooks = <<>>)
                /\ (i = Len(migrated) /\ migrated[i].returned) =>
                        \/ pc = "ms_migrate"
                        \/ /\ i = Len(ensured)
                           /\ pc \in {"m_finally", "exit"}
                           /\ "site_migrated" \in siteLog)
    /\ [][(/\ pc = "ms_migrate"
           /\ migrated # <<>>
           /\ migrated[Len(migrated)].listing = "failed"
           /\ Len(migrated) < Len(ensured)) =>
                /\ Len(migrated') = Len(migrated) + 1
                /\ migrated'[Len(migrated')].source =
                        ensured[Len(migrated) + 1].source]_vars

C23_Witness ==
    /\ Len(migrated) = 2
    /\ migrated[1].listing = "failed"
    /\ migrated[1].returned
    /\ migrated[2].listing = "ok"
    /\ migrated[2].calls = 1
    /\ migrated[2].returned
    /\ pc = "exit"
    /\ exc = "none"

\* C24: migrate_site calls migrate_project at most once for a source project,
\* only for a mapped one and with the target project id that the project map
\* holds for it, and once for every mapped project when it returns without
\* an exception; the calls start after the passes over the hierarchy: from
\* the first of them on no project is created and the map does not change,
\* and a workbook is published only within them.
C24_EachMappedProjectMigratedOnce ==
    /\ [](/\ \A i \in 1..Len(migrated) :
                /\ migrated[i].source \in DOMAIN project_map
                /\ migrated[i].target = project_map[migrated[i].source]
                /\ \A j \in 1..Len(migrated) :
                        migrated[j].source = migrated[i].source => j = i
          /\ (pc = "exit" /\ exc = "none") =>
                {migrated[i].source : i \in 1..Len(migrated)} =
                    DOMAIN project_map
          /\ migrated # <<>> =>
                pc \in {"ms_migrate", "ms_workbook", "m_finally", "exit"}
          /\ [server |-> "target", op |-> "publish"] \in calls =>
                migrated # <<>>)
    /\ [][(migrated' # <<>>) =>
            /\ target_projects' = target_projects
            /\ project_map' = project_map
            /\ [server |-> "target", op |-> "create_project"] \notin calls']_vars

C24_Witness ==
    /\ pc = "exit"
    /\ exc = "none"
    /\ Len(source_projects) = 2
    /\ "hierarchy_error" \in siteLog
    /\ Len(ensured) = 1
    /\ ensured[1].created
    /\ Len(migrated) = 1
    /\ migrated[1].calls = 2
    /\ migrated[1].returned

\* The project p has the name and the parent of the arguments.
IsTheProject(p) ==
    /\ p.name = ensure_args.project_name
    /\ p.parent_id = ensure_args.parent_id

\* C25: ensure_project_exists creates a project only when no project of the
\* target site has the name together with the parent (top level for None),
\* and else returns a project that was there; a second call with the same
\* name and parent, with no change of the target in between, creates nothing
\* and returns the project that the first call found or created.
C25_EnsureIsIdempotent ==
    \A i \in 1..Len(ensure_log) :
        LET r == ensure_log[i]
        IN  (r.kind = "call" /\ ~r.raised) =>
                /\ IsTheProject(r.project)
                /\ r.created <=> ~(\E p \in r.before : IsTheProject(p))
                /\ r.created <=> r.project \notin r.before
                /\ (i > 1 /\ ensure_log[i - 1].kind = "call") =>
                        /\ ~r.created
                        /\ r.project = ensure_log[i - 1].project
                        /\ target_projects = r.before

C25_Witness ==
    /\ pc = "en_done"
    /\ Len(ensure_log) = 2
    /\ ensure_log[1].kind = "call"
    /\ ensure_log[1].created
    /\ ensure_args.parent_id = <<"t", 1>>
    /\ ensure_log[2].kind = "call"
    /\ ~ensure_log[2].raised
    /\ ensure_log[2].project = ensure_log[1].project

\* C26: cleanup never raises and attempts every step: a failure of the
\* removal of the temporary directory or of the sign-out of the source server
\* is logged and the sign-out of the target server is attempted all the same;
\* a sign-out is attempted only for a server that was connected, that is, one
\* that had signed in; a download directory that the user gave is not removed.
C26_CleanupAttemptsEveryStep ==
    /\ [][(pc = "m_finally" /\ action \in MigrateActions) =>
            /\ exc' = exc
            /\ target_server = "signed_in" =>
                    [server |-> "target", op |-> "sign_out"] \in calls'
            /\ \A s \in {"source", "target"} :
                    [server |-> s, op |-> "sign_out"] \in calls' =>
                        StoredServer(s) = "signed_in"
            /\ userDir => (dirExists' /\ dir' = dir)]_vars

\* The projects of the source site whose name equals, ignoring case, the
\* --source-project argument.
NamedAsArgument ==
    {i \in DOMAIN source_projects :
         EqualIgnoringCase(source_projects[i].name, source_project)}

\* The --source-project argument is the id of a project of the source site.
ArgumentIsAnId ==
    \E i \in DOMAIN source_projects : source_projects[i].id = source_project

\* download_tableau_workbook went past the resolution of the project: it
\* returned or raised, and not because the listing of the projects failed.
ProjectSettled ==
    /\ action = "export"
    /\ pc \notin {"start", "x_connect", "x_find"}
    /\ source_server = "signed_in"
    /\ exc # "ServerError"

\* C27: in the export pipeline a --source-project that equals, ignoring case,
\* the name of a project of the source site is resolved to the id of the first
\* such project and the workbook is looked up in that project, whatever the
\* length of the name; a name that matches no project raises "Project ... not
\* found" before any lookup of the workbook and before any download.
C27_ProjectResolvedByName ==
    ProjectSettled =>
        /\ NamedAsArgument # {} =>
            LET first == CHOOSE i \in NamedAsArgument :
                             \A j \in NamedAsArgument : i <= j
            IN  /\ project_id = IdValue("str", source_projects[first].id)
                /\ "workbook_lookup" \in mainLog
        /\ (NamedAsArgument = {} /\ ~ArgumentIsAnId) =>
            /\ exc = "Exception"
            /\ excMsg = <<"Project '">> \o source_project
                            \o <<"' not found on Tableau server">>
            /\ "workbook_lookup" \notin mainLog
            /\ dlLog = <<>>
            /\ callNo = 0

====
